---------------------------- MODULE Spec2Model ----------------------------
(***************************************************************************)
(* Model of the analysis core of btc-investment-strategy:                  *)
(*   src/src/analysis/predictor.py   Predictor._parse_patterns,            *)
(*                                   _build_prompt, generate_predictions   *)
(*   src/src/analysis/technical.py   TechnicalAnalyzer (analyze,           *)
(*                                   _analyze_trend, the pattern detectors)*)
(*   src/src/data/ohlcv.py           calculate_support_resistance          *)
(* and of the post synchronisation:                                        *)
(*   src/scripts/sync_tweets_to_pinecone.py   sync_tweets                  *)
(*   src/src/twitter/client.py       TwitterClient.get_user_tweets         *)
(*                                                                         *)
(* Numbers.  A Python float is modelled as an exact rational n/d (reduced, *)
(* d > 0) or one of the non-finite values; comparisons are the IEEE ones   *)
(* (every comparison with NaN is false).  A JSON document is a tagged      *)
(* record, so that float(), int() and str() are conversions between        *)
(* different representations and can fail the way the Python ones do.      *)
(***************************************************************************)
EXTENDS Integers, Sequences, FiniteSets, TLC

VARIABLES
    \* ---- Predictor._parse_patterns -----------------------------------
    response,       \* the decoded JSON argument `response`
    items,          \* the iterable response.get("patterns", []) being walked
    idx,            \* position of the for loop in items (next item to read)
    patterns,       \* the local list `patterns`
    pc,             \* "call" | "loop" | "returned" | "raised"
    exc,            \* exception leaving _parse_patterns ("" when none)
    now,            \* the wall clock read by datetime.now
    results,        \* outcome of every finished call on this response
    \* ---- TechnicalAnalyzer._analyze_trend -----------------------------
    latest,         \* df.iloc[-1]: the columns of the window, with the last
                    \* row's value of each
    tpc,            \* "idle" | "start" | "done" | "raised"
    strength_factors, \* the local list of (name, direction, weight)
    net_score,      \* the local net_score (None until it is assigned)
    trend,          \* the returned trend
    strength,       \* the returned strength
    \* ---- TechnicalAnalyzer.analyze and what it calls -------------------
    df,             \* the candle window, oldest candle first
    slopes,         \* what np.polyfit makes of the highs and of the lows of
                    \* the last 30 rows of df: <<high_slope, low_slope>>
                    \* (<<>> for a shorter window, where it is not called)
    pattern_detectors, \* self.pattern_detectors
    di,             \* position of the for loop of _detect_patterns
    detected,       \* the local list `patterns` of _detect_patterns
    invoked,        \* history: the detectors called so far, in call order
    logged,         \* the exceptions handed to logger.warning
    apc,            \* "idle" | "detect" | "detected" | "summarized" |
                    \* "levels" | "returned"
    indicators,     \* the result of _summarize_indicators
    sr_levels,      \* the result of calculate_support_resistance, with
                    \* its locals
    summary,        \* the parts _generate_summary joins
    first_result,   \* history: the AnalysisResult an earlier analyze(df)
                    \* handed to the caller (None when there was none)
    \* ---- Predictor.generate_predictions and _build_prompt -------------
    client,         \* self.client is set (an API key was configured)
    technical_analysis, \* the argument technical_analysis
    current_price,  \* the argument current_price
    timeframes,     \* the argument timeframes (None, or a list of texts)
    num_patterns,   \* the argument num_patterns
    news_context,   \* the argument news_context (None, or a text)
    gpc,            \* "idle" | "call" | "build" | "built" | "parse" |
                    \* "returned" | "raised"
    attempt,        \* the attempt of the retry decorator that is running
    prompt,         \* what _build_prompt returned last: the lines it joined
    builds,         \* history: the number of calls of _build_prompt
    glog,           \* the messages handed to logger.error and logger.info
                    \* by lines 120, 166, 172, 176 and 179
    requests,       \* history: the user prompts sent to the collaborator
    content,        \* the local `content` of the running attempt
    parsed,         \* history: the arguments _parse_patterns was called on
    outcome,        \* what generate_predictions handed to its caller
    \* ---- scripts/sync_tweets_to_pinecone.py: sync_tweets --------------
    timeline,       \* the user's posts on the remote service: timeline[i]
                    \* tells whether the post of id i carries the hashtag
    configured,     \* is_configured of both clients
    sync_file,      \* the content of SYNC_STATE_FILE: <<>> while the file
                    \* does not exist, else <<the dict saved last>>
    state,          \* the local dict `state` of the running call
    spc,            \* "idle" | "fetch" | "returned" | "raised"
    mode,           \* the branch of line 169 the call took: "differential"
                    \* or "historical" ("" before the first call)
    max_tweets,     \* the argument max_tweets
    fetch_all,      \* the argument fetch_all
    pages_fetched,  \* the local pages_fetched
    total_api_calls_this_run,   \* the local of that name
    total_synced_this_run,      \* the local of that name
    fetched,        \* the local `result`: what get_user_tweets returned last
    pinecone,       \* the ids of the posts stored by upsert_tweets_batch
    last_page_seen, \* history: get_user_tweets has logged "(last page)", or
                    \* the service has answered that the user has no post
    faults,         \* history: the calls of get_user_tweets that failed
    runs            \* history: the calls of sync_tweets

pvars == <<response, items, idx, patterns, pc, exc, now, results>>

tvars == <<latest, tpc, strength_factors, net_score, trend, strength>>

avars == <<df, slopes, pattern_detectors, di, detected, invoked, logged, apc,
           indicators, sr_levels, summary, first_result>>

gvars == <<client, technical_analysis, current_price, timeframes, num_patterns,
           news_context, gpc, attempt, prompt, builds, glog, requests,
           content, parsed, outcome>>

svars == <<timeline, configured, sync_file, state, spc, mode, max_tweets, fetch_all,
           pages_fetched, total_api_calls_this_run, total_synced_this_run,
           fetched, pinecone, last_page_seen, faults, runs>>

vars == <<pvars, tvars, avars, gvars, svars>>

\* what the steps of _parse_patterns leave alone
notparse == <<tvars, avars, gvars, svars>>

\* what the steps of _analyze_trend leave alone
nottrend == <<pvars, avars, gvars, svars>>

\* what the steps of _detect_patterns and the later steps of analyze leave
\* alone
notanalyze == <<pvars, tvars, gvars, svars>>

\* what the steps of _build_prompt and generate_predictions leave alone
\* (the steps of _parse_patterns apart)
notgenerate == <<tvars, avars, svars>>

---------------------------------------------------------------------------
\* Bounds of the model
MaxItems == 3       \* longest raw candidate list
MaxNow == 1         \* latest clock reading

---------------------------------------------------------------------------
\* Exact rationals

Abs(x) == IF x < 0 THEN -x ELSE x

RECURSIVE Gcd(_, _)
Gcd(a, b) == IF b = 0 THEN a ELSE Gcd(b, a % b)

\* the finite float n/d, reduced, with positive denominator
Fin(n, d) ==
    LET s == IF d < 0 THEN -1 ELSE 1
        g == Gcd(Abs(n), Abs(d))
    IN  [c |-> "fin", n |-> (s * n) \div g, d |-> (s * d) \div g]

NaN == [c |-> "nan", n |-> 0, d |-> 1]
PosInf == [c |-> "inf", n |-> 1, d |-> 1]
NegInf == [c |-> "inf", n |-> -1, d |-> 1]

\* a < b on floats: false as soon as one side is NaN
FLt(a, b) ==
    CASE a.c = "nan" \/ b.c = "nan" -> FALSE
      [] a.c = "inf" /\ b.c = "inf" -> a.n < b.n
      [] a.c = "inf" -> a.n < 0
      [] b.c = "inf" -> b.n > 0
      [] OTHER -> a.n * b.d < b.n * a.d

FGt(a, b) == FLt(b, a)

\* a value that is not set (Python's None)
None == [c |-> "none", n |-> 0, d |-> 1]

\* arithmetic, on finite operands (the only ones it is applied to)
FAdd(a, b) == Fin(a.n * b.d + b.n * a.d, a.d * b.d)
FSub(a, b) == Fin(a.n * b.d - b.n * a.d, a.d * b.d)
\* (the product is reduced crosswise before it is formed, to keep the
\* numbers small)
FMul(a, b) ==
    LET g == Gcd(Abs(a.n), b.d)
        h == Gcd(Abs(b.n), a.d)
    IN  Fin((a.n \div g) * (b.n \div h), (a.d \div h) * (b.d \div g))
FDiv(a, b) ==
    FMul(a, [c |-> "fin", n |-> IF b.n < 0 THEN -b.d ELSE b.d, d |-> Abs(b.n)])
FAbs(a) == Fin(Abs(a.n), a.d)

\* min(a, b): b when b < a, else a
PyMin(a, b) == IF FLt(b, a) THEN b ELSE a

\* round(x, 1) of a finite x: the nearest tenth, a tie going to the even one
Round1(x) ==
    LET n == x.n * 10
        q == n \div x.d
        r == n - q * x.d
        up == \/ 2 * r > x.d
              \/ 2 * r = x.d /\ q % 2 = 1
    IN  Fin(IF up THEN q + 1 ELSE q, 10)

---------------------------------------------------------------------------
\* JSON values, as json.loads returns them

JNull == [k |-> "null"]
JBool(b) == [k |-> "bool", b |-> b]
JInt(i) == [k |-> "int", n |-> i]               \* an int that fits a double
JBig == [k |-> "big"]                           \* an int literal beyond 1.8e308
JFloat(n, d) == [k |-> "float", n |-> n, d |-> d]
JNaN == [k |-> "nan"]                           \* the literal NaN
JInfinity == [k |-> "inf", n |-> 1]             \* the literals Infinity, -Infinity
JNegInfinity == [k |-> "inf", n |-> -1]
JStr(s) == [k |-> "str", s |-> s]
JList(e) == [k |-> "list", e |-> e]
JObj(f) == [k |-> "obj", f |-> f]

\* the outcome of an expression: a value, or the exception it raises
Ok(v) == [ok |-> TRUE, exc |-> "", val |-> v]
Raise(e) == [ok |-> FALSE, exc |-> e, val |-> 0]

---------------------------------------------------------------------------
\* The candle window and the detector registry

\* one row of the window (open and timestamp are never read by the code
\* modelled here and are left out)
Candle(h, l, c) == [high |-> h, low |-> l, close |-> c, volume |-> Fin(1000, 1)]

\* a detector: one of the five methods, or a stand-in put in
\* self.pattern_detectors that has a fixed outcome `out`
Detector(fn) == [fn |-> fn, out |-> Ok(JNull)]
StandIn(out) == [fn |-> "stand_in", out |-> out]

\* a slip of __init__: the triangle detector registered first
TriangleFirst ==
    <<Detector("_detect_triangle"), Detector("_detect_double_top_bottom"),
      Detector("_detect_head_shoulders"), Detector("_detect_channel"),
      Detector("_detect_wedge")>>

\* __init__: self.pattern_detectors
RegisteredDetectors ==
    <<Detector("_detect_double_top_bottom"), Detector("_detect_head_shoulders"),
      Detector("_detect_triangle"), Detector("_detect_channel"),
      Detector("_detect_wedge")>>

\* analyze is not running: an analyzer as constructed, and a window of the
\* one candle that `latest` is the last row of
AnalyzeIdle ==
    /\ df = <<Candle(Fin(112, 1), Fin(112, 1), Fin(112, 1))>>
    /\ slopes = <<>>
    /\ pattern_detectors = RegisteredDetectors
    /\ di = 1
    /\ detected = <<>>
    /\ invoked = <<>>
    /\ logged = <<>>
    /\ apc = "idle"
    /\ indicators = None
    /\ sr_levels = None
    /\ summary = <<>>
    /\ first_result = None

\* a local that no assignment has reached yet
Unbound == [k |-> "unbound"]

\* generate_predictions is not running: a predictor as constructed with an
\* API key, and no call made
GenerateIdle ==
    /\ client = TRUE
    /\ technical_analysis = None
    /\ current_price = None
    /\ timeframes = JNull
    /\ num_patterns = 10
    /\ news_context = JNull
    /\ gpc = "idle"
    /\ attempt = 1
    /\ prompt = <<>>
    /\ builds = 0
    /\ glog = <<>>
    /\ requests = <<>>
    /\ content = Unbound
    /\ parsed = <<>>
    /\ outcome = None

---------------------------------------------------------------------------
\* The value None of a post id and of a pagination token (the ids the
\* service gives are positive)
NoId == 0

\* The result get_user_tweets builds with TweetFetchResult(): no post, no
\* token, no id
EmptyResult ==
    [tweets |-> <<>>, next_token |-> NoId, oldest_id |-> NoId,
     newest_id |-> NoId, token_invalid |-> FALSE]

\* The dict load_sync_state returns when SYNC_STATE_FILE does not exist
DefaultState ==
    [newest_synced_tweet_id |-> NoId,
     oldest_synced_tweet_id |-> NoId,
     pagination_token |-> NoId,
     all_historical_collected |-> FALSE,
     total_synced_count |-> 0]

\* sync_tweets is not running and has never run: no state file, nothing
\* stored, no post on the remote service
SyncIdle ==
    /\ timeline = <<>>
    /\ configured = TRUE
    /\ sync_file = <<>>
    /\ state = DefaultState
    /\ spc = "idle"
    /\ mode = ""
    /\ max_tweets = 0
    /\ fetch_all = FALSE
    /\ pages_fetched = 0
    /\ total_api_calls_this_run = 0
    /\ total_synced_this_run = 0
    /\ fetched = EmptyResult
    /\ pinecone = {}
    /\ last_page_seen = FALSE
    /\ faults = 0
    /\ runs = 0

---------------------------------------------------------------------------

\* The text literals the bounded inputs use, with what float() and int()
\* make of each (a text outside the table is not part of the model).
StrAsFloat(s) ==
    CASE s = "0.1" -> Ok(Fin(1, 10))
      [] s = "2" -> Ok(Fin(2, 1))
      [] s = "nan" -> Ok(NaN)
      [] OTHER -> Raise("ValueError")

StrAsInt(s) ==
    CASE s = "2" -> Ok(2)
      [] OTHER -> Raise("ValueError")

\* float(x)
PyFloat(x) ==
    CASE x.k = "float" -> Ok(Fin(x.n, x.d))
      [] x.k = "int" -> Ok(Fin(x.n, 1))
      [] x.k = "bool" -> Ok(Fin(IF x.b THEN 1 ELSE 0, 1))
      [] x.k = "nan" -> Ok(NaN)
      [] x.k = "inf" -> Ok(IF x.n > 0 THEN PosInf ELSE NegInf)
      [] x.k = "big" -> Raise("OverflowError")
      [] x.k = "str" -> StrAsFloat(x.s)
      [] OTHER -> Raise("TypeError")

\* int(x): truncation toward zero; a big int stays an int
PyInt(x) ==
    CASE x.k = "float" ->
            Ok([c |-> "fin", n |-> (IF x.n < 0 THEN -1 ELSE 1) * (Abs(x.n) \div x.d)])
      [] x.k = "int" -> Ok([c |-> "fin", n |-> x.n])
      [] x.k = "bool" -> Ok([c |-> "fin", n |-> IF x.b THEN 1 ELSE 0])
      [] x.k = "big" -> Ok([c |-> "big", n |-> 0])
      [] x.k = "nan" -> Raise("ValueError")
      [] x.k = "inf" -> Raise("OverflowError")
      [] x.k = "str" ->
            LET r == StrAsInt(x.s)
            IN  IF r.ok THEN Ok([c |-> "fin", n |-> r.val]) ELSE r
      [] OTHER -> Raise("TypeError")

PyIntOf(i) == [c |-> "fin", n |-> i]

Digit == <<"0", "1", "2", "3", "4", "5", "6", "7", "8", "9">>

RECURSIVE DecStr(_)
DecStr(n) ==
    IF n < 10 THEN Digit[n + 1] ELSE DecStr(n \div 10) \o Digit[(n % 10) + 1]

\* str(x), for the values the bounded inputs place in a text field
PyStr(x) ==
    CASE x.k = "str" -> Ok(x.s)
      [] x.k = "null" -> Ok("None")
      [] x.k = "bool" -> Ok(IF x.b THEN "True" ELSE "False")
      [] x.k = "int" -> Ok(IF x.n < 0 THEN "-" \o DecStr(-x.n) ELSE DecStr(x.n))
      [] x.k = "nan" -> Ok("nan")
      [] x.k = "inf" -> Ok(IF x.n > 0 THEN "inf" ELSE "-inf")

\* x[key] for a string key
GetItem(x, key) ==
    IF x.k = "obj"
    THEN IF key \in DOMAIN x.f THEN Ok(x.f[key]) ELSE Raise("KeyError")
    ELSE Raise("TypeError")

\* x.get(key, default) of a dict
DictGet(x, key, default) ==
    IF x.k = "obj"
    THEN Ok(IF key \in DOMAIN x.f THEN x.f[key] ELSE default)
    ELSE Raise("AttributeError")

\* the elements `for ... in x` walks: those of a list; null and the numbers
\* are not iterable (texts and objects are never iterated by the bounded
\* inputs and have no case here)
PyIter(x) ==
    CASE x.k = "list" -> Ok(x.e)
      [] x.k \in {"null", "bool", "int", "big", "float", "nan", "inf"} ->
            Raise("TypeError")

\* a slip of FloatEach: an element that does not coerce is left out and the
\* walk goes on
RECURSIVE FloatEachSkipping(_, _)
FloatEachSkipping(e, acc) ==
    IF e = <<>>
    THEN Ok(acc)
    ELSE LET r == PyFloat(Head(e))
         IN  FloatEachSkipping(Tail(e), IF r.ok THEN Append(acc, r.val) ELSE acc)

\* [float(tp) for tp in x]: the first element that fails ends the walk
RECURSIVE FloatEach(_, _)
FloatEach(e, acc) ==
    IF e = <<>>
    THEN Ok(acc)
    ELSE LET r == PyFloat(Head(e))
         IN  IF r.ok THEN FloatEach(Tail(e), Append(acc, r.val)) ELSE r

FloatList(x) ==
    LET it == PyIter(x)
    IN  IF it.ok THEN FloatEach(it.val, <<>>) ELSE it

\* float(x[key]), int(x[key]), str(x[key]) and [float(tp) for tp in x[key]]:
\* the subscript first, the conversion on what it yields
GetFloat(x, key) ==
    LET g == GetItem(x, key)
    IN  IF g.ok THEN PyFloat(g.val) ELSE g

GetInt(x, key) ==
    LET g == GetItem(x, key)
    IN  IF g.ok THEN PyInt(g.val) ELSE g

GetStr(x, key) ==
    LET g == GetItem(x, key)
    IN  IF g.ok THEN PyStr(g.val) ELSE g

GetFloatList(x, key) ==
    LET g == GetItem(x, key)
    IN  IF g.ok THEN FloatList(g.val) ELSE g

---------------------------------------------------------------------------
\* Predictor._parse_patterns

Min(S) == CHOOSE x \in S : \A y \in S : x <= y

\* The body of the try block for one item: KeyLevels(...) and then
\* PredictionPattern(...), the arguments evaluated in source order, so the
\* first expression that fails decides the exception.  t is what
\* datetime.now returns when the dataclass fills created_at; src is a
\* history field (the item's position in the raw list), not program state.
BuildPattern(item, src, t) ==
    LET kl == GetItem(item, "key_levels")
        entry == IF kl.ok THEN GetFloat(kl.val, "entry") ELSE kl
        stop_loss == IF kl.ok THEN GetFloat(kl.val, "stop_loss") ELSE kl
        take_profit == IF kl.ok THEN GetFloatList(kl.val, "take_profit") ELSE kl
        rank == GetInt(item, "rank")
        probability == GetFloat(item, "probability")
        direction == GetStr(item, "direction")
        target_price == GetFloat(item, "target_price")
        timeframe == GetStr(item, "timeframe")
        pattern_name == GetStr(item, "pattern_name")
        reasoning == GetStr(item, "reasoning")
        args == <<entry, stop_loss, take_profit, rank, probability, direction,
                  target_price, timeframe, pattern_name, reasoning>>
        failed == {i \in DOMAIN args : ~args[i].ok}
    IN  IF failed # {}
        THEN Raise(args[Min(failed)].exc)
        ELSE Ok([rank |-> rank.val,
                 probability |-> probability.val,
                 direction |-> direction.val,
                 target_price |-> target_price.val,
                 timeframe |-> timeframe.val,
                 pattern_name |-> pattern_name.val,
                 reasoning |-> reasoning.val,
                 key_levels |-> [entry |-> entry.val,
                                 stop_loss |-> stop_loss.val,
                                 take_profit |-> take_profit.val],
                 created_at |-> t,
                 src |-> src])

\* except (KeyError, ValueError, TypeError)
Caught(e) == e \in {"KeyError", "ValueError", "TypeError"}

\* ---- list.sort(key=..., reverse=True), as CPython runs it on a list
\* shorter than 64 (one run, extended by binary insertion) ----------------

\* key=lambda x: x.probability
SortKey(x) == x.probability

\* the only comparison the sort makes: key(a) < key(b)
KeyLt(a, b) == FLt(SortKey(a), SortKey(b))

Reverse(s) == [i \in 1..Len(s) |-> s[Len(s) + 1 - i]]

\* count_run: the run starting the list is s[1..n]; it is strictly
\* descending when s[2] < s[1], else non-descending
RECURSIVE RunEnd(_, _, _)
RunEnd(s, n, descending) ==
    IF n = Len(s)
    THEN n
    ELSE IF descending = KeyLt(s[n + 1], s[n])
         THEN RunEnd(s, n + 1, descending)
         ELSE n

\* binarysort's search: where pivot goes among s[l..r-1], after its equals
RECURSIVE Bisect(_, _, _, _)
Bisect(s, pivot, l, r) ==
    IF l >= r
    THEN l
    ELSE LET p == l + ((r - l) \div 2)
         IN  IF KeyLt(pivot, s[p])
             THEN Bisect(s, pivot, l, p)
             ELSE Bisect(s, pivot, p + 1, r)

\* s with s[from] moved to position to <= from
MoveTo(s, from, to) ==
    [i \in 1..Len(s) |->
        IF i < to \/ i > from THEN s[i]
        ELSE IF i = to THEN s[from]
        ELSE s[i - 1]]

RECURSIVE BinarySort(_, _)
BinarySort(s, start) ==
    IF start > Len(s)
    THEN s
    ELSE BinarySort(MoveTo(s, start, Bisect(s, s[start], 1, start)), start + 1)

\* the stable ascending sort
ListSort(s) ==
    IF Len(s) < 2
    THEN s
    ELSE LET descending == KeyLt(s[2], s[1])
             n == RunEnd(s, 2, descending)
             run == IF descending
                    THEN [i \in 1..Len(s) |-> IF i <= n THEN s[n + 1 - i] ELSE s[i]]
                    ELSE s
         IN  BinarySort(run, n + 1)

\* reverse=True: the list is reversed, sorted, and reversed again
SortReverse(s) == Reverse(ListSort(Reverse(s)))

\* a slip of ReassignRanks: enumerate(patterns), counting from 0
ReassignRanksFromZero(s) == [i \in 1..Len(s) |-> [s[i] EXCEPT !.rank = PyIntOf(i - 1)]]

\* for i, pattern in enumerate(patterns, 1): pattern.rank = i
ReassignRanks(s) == [i \in 1..Len(s) |-> [s[i] EXCEPT !.rank = PyIntOf(i)]]

\* what a finished call hands to its caller
Returned(v) == [ok |-> TRUE, exc |-> "", val |-> v]
Raised(e) == [ok |-> FALSE, exc |-> e, val |-> <<>>]

\* patterns = []; for item in response.get("patterns", [])
EnterParse ==
    /\ pc = "call"
    /\ LET g == DictGet(response, "patterns", JList(<<>>))
           it == IF g.ok THEN PyIter(g.val) ELSE g
       IN  IF it.ok
           THEN /\ items' = it.val
                /\ pc' = "loop"
                /\ UNCHANGED <<exc, results>>
           ELSE /\ items' = <<>>
                /\ pc' = "raised"
                /\ exc' = it.exc
                /\ results' = Append(results, Raised(it.exc))
    /\ idx' = 1
    /\ patterns' = <<>>
    /\ UNCHANGED <<response, now>>
    /\ UNCHANGED notparse

\* one turn of the loop whose try block succeeds: patterns.append(pattern)
KeepCandidate ==
    /\ pc = "loop"
    /\ idx <= Len(items)
    /\ \E t \in now..MaxNow :
         LET r == BuildPattern(items[idx], idx, t)
         IN  /\ r.ok
             /\ patterns' = Append(patterns, r.val)
             /\ now' = t
    /\ idx' = idx + 1
    /\ UNCHANGED <<response, items, pc, exc, results>>
    /\ UNCHANGED notparse

\* one turn whose try block raises a caught exception: warning, continue
DiscardCandidate ==
    /\ pc = "loop"
    /\ idx <= Len(items)
    /\ LET r == BuildPattern(items[idx], idx, now)
       IN  ~r.ok /\ Caught(r.exc)
    /\ idx' = idx + 1
    /\ UNCHANGED <<response, items, patterns, pc, exc, now, results>>
    /\ UNCHANGED notparse

\* one turn whose try block raises anything else: it leaves the function
AbortParse ==
    /\ pc = "loop"
    /\ idx <= Len(items)
    /\ LET r == BuildPattern(items[idx], idx, now)
       IN  /\ ~r.ok
           /\ ~Caught(r.exc)
           /\ exc' = r.exc
           /\ results' = Append(results, Raised(r.exc))
    /\ pc' = "raised"
    /\ UNCHANGED <<response, items, idx, patterns, now>>
    /\ UNCHANGED notparse

\* after the loop: sort, reassign the ranks, return
SortAndReturn ==
    /\ pc = "loop"
    /\ idx > Len(items)
    /\ patterns' = ReassignRanks(SortReverse(patterns))
    /\ results' = Append(results, Returned(patterns'))
    /\ pc' = "returned"
    /\ UNCHANGED <<response, items, idx, exc, now>>
    /\ UNCHANGED notparse

\* the caller calls _parse_patterns once more on the same response
CallAgain ==
    /\ pc \in {"returned", "raised"}
    /\ Len(results) < 2
    /\ pc' = "call"
    /\ items' = <<>>
    /\ idx' = 1
    /\ patterns' = <<>>
    /\ exc' = ""
    /\ UNCHANGED <<response, now, results>>
    /\ UNCHANGED notparse

---------------------------------------------------------------------------
\* The raw candidates the model draws from

KeyLevelsOf(stop_loss, take_profit) ==
    JObj([entry |-> JInt(98000), stop_loss |-> stop_loss,
          take_profit |-> JList(take_profit)])

Candidate(rank, probability, key_levels) ==
    JObj([rank |-> rank, probability |-> probability,
          direction |-> JStr("bullish"), target_price |-> JInt(105000),
          timeframe |-> JStr("2weeks"), pattern_name |-> JNull,
          reasoning |-> JStr("breakout"), key_levels |-> key_levels])

TwoTargets == <<JInt(102000), JFloat(210001, 2)>>

CandidateSeq ==
    << Candidate(JInt(3), JFloat(1, 2), KeyLevelsOf(JInt(95000), TwoTargets)),
       Candidate(JStr("2"), JFloat(1, 2), KeyLevelsOf(JInt(95000), <<>>)),
       Candidate(JFloat(27, 10), JStr("0.1"), KeyLevelsOf(JInt(95000), TwoTargets)),
       Candidate(JInt(1), JNaN, KeyLevelsOf(JInt(95000), TwoTargets)),
       Candidate(JInt(1), JFloat(3, 2), KeyLevelsOf(JInt(95000), TwoTargets)),
       Candidate(JInfinity, JFloat(1, 2), KeyLevelsOf(JInt(95000), TwoTargets)),
       Candidate(JInt(1), JFloat(1, 2),
                 KeyLevelsOf(JInt(95000), <<JInt(102000), JStr("tbd")>>)),
       Candidate(JInt(1), JFloat(1, 2),
                 JObj([entry |-> JInt(98000), take_profit |-> JList(TwoTargets)])),
       JNull >>

Candidates == {CandidateSeq[i] : i \in DOMAIN CandidateSeq}

RawLists == UNION { [1..n -> Candidates] : n \in 0..MaxItems }

Responses ==
    { JObj([patterns |-> JList(l)]) : l \in RawLists }
        \cup { JObj([error |-> JStr("overloaded")]) }

ParseInit ==
    /\ SyncIdle
    /\ response \in Responses
    /\ items = <<>>
    /\ idx = 1
    /\ patterns = <<>>
    /\ pc = "call"
    /\ exc = ""
    /\ now = 0
    /\ results = <<>>
    /\ latest = [col \in {"close"} |-> Fin(112, 1)]
    /\ tpc = "idle"
    /\ strength_factors = <<>>
    /\ net_score = None
    /\ trend = ""
    /\ strength = None
    /\ AnalyzeIdle
    /\ GenerateIdle

\* one call of _parse_patterns
ParseNext ==
    \/ EnterParse
    \/ KeepCandidate
    \/ DiscardCandidate
    \/ AbortParse
    \/ SortAndReturn

SpecParse == ParseInit /\ [][ParseNext]_vars

\* two calls of _parse_patterns on the same response
ReparseNext ==
    \/ ParseNext
    \/ CallAgain

SpecReparse == ParseInit /\ [][ReparseNext]_vars

---------------------------------------------------------------------------
\* TechnicalAnalyzer._analyze_trend

Columns == DOMAIN latest

Factor(name, direction, weight) == [name |-> name, d |-> direction, w |-> weight]

\* if "sma_20" in df.columns and "sma_50" in df.columns
SmaCross(row) ==
    IF "sma_20" \in DOMAIN row /\ "sma_50" \in DOMAIN row
    THEN IF FGt(row["sma_20"], row["sma_50"])
         THEN <<Factor("sma_cross", Fin(1, 1), Fin(25, 1))>>
         ELSE <<Factor("sma_cross", Fin(-1, 1), Fin(25, 1))>>
    ELSE <<>>

\* if "sma_200" in df.columns
AboveSma200(row) ==
    IF "sma_200" \in DOMAIN row
    THEN IF FGt(row["close"], row["sma_200"])
         THEN <<Factor("above_sma200", Fin(1, 1), Fin(20, 1))>>
         ELSE <<Factor("above_sma200", Fin(-1, 1), Fin(20, 1))>>
    ELSE <<>>

\* a slip of Rsi: an overbought oscillator read as a reversal signal
\* (bearish), an oversold one as bullish
RsiAsReversal(row) ==
    IF "rsi_14" \in DOMAIN row
    THEN LET rsi == row["rsi_14"]
         IN  IF FGt(rsi, Fin(70, 1)) THEN <<Factor("rsi", Fin(-1, 1), Fin(15, 1))>>
             ELSE IF FLt(rsi, Fin(30, 1)) THEN <<Factor("rsi", Fin(1, 1), Fin(15, 1))>>
             ELSE IF FGt(rsi, Fin(50, 1)) THEN <<Factor("rsi", Fin(1, 2), Fin(10, 1))>>
             ELSE <<Factor("rsi", Fin(-1, 2), Fin(10, 1))>>
    ELSE <<>>

\* if "rsi_14" in df.columns
Rsi(row) ==
    IF "rsi_14" \in DOMAIN row
    THEN LET rsi == row["rsi_14"]
         IN  IF FGt(rsi, Fin(70, 1)) THEN <<Factor("rsi", Fin(1, 1), Fin(15, 1))>>
             ELSE IF FLt(rsi, Fin(30, 1)) THEN <<Factor("rsi", Fin(-1, 1), Fin(15, 1))>>
             ELSE IF FGt(rsi, Fin(50, 1)) THEN <<Factor("rsi", Fin(1, 2), Fin(10, 1))>>
             ELSE <<Factor("rsi", Fin(-1, 2), Fin(10, 1))>>
    ELSE <<>>

\* a slip of Macd: a missing signal line read as 0
MacdSignalDefaultZero(row) ==
    IF "macd" \in DOMAIN row
    THEN LET sig == IF "macd_signal" \in DOMAIN row THEN row["macd_signal"]
                    ELSE Fin(0, 1)
         IN  IF FGt(row["macd"], sig)
             THEN <<Factor("macd", Fin(1, 1), Fin(20, 1))>>
             ELSE <<Factor("macd", Fin(-1, 1), Fin(20, 1))>>
    ELSE <<>>

\* if "macd" in df.columns and "macd_signal" in df.columns
Macd(row) ==
    IF "macd" \in DOMAIN row /\ "macd_signal" \in DOMAIN row
    THEN IF FGt(row["macd"], row["macd_signal"])
         THEN <<Factor("macd", Fin(1, 1), Fin(20, 1))>>
         ELSE <<Factor("macd", Fin(-1, 1), Fin(20, 1))>>
    ELSE <<>>

\* a slip of AdxWeight: the full weight whatever the index
AdxWeightUnscaled(adx) == Fin(20, 1)

\* min(adx / 50 * 20, 20)
AdxWeight(adx) == PyMin(FMul(FDiv(adx, Fin(50, 1)), Fin(20, 1)), Fin(20, 1))

\* if "adx_14" in df.columns
Adx(row) ==
    IF "adx_14" \in DOMAIN row
    THEN LET adx == row["adx_14"]
         IN  IF FGt(adx, Fin(25, 1))
             THEN <<Factor("adx", Fin(1, 1), AdxWeight(adx))>>
             ELSE <<Factor("adx", Fin(0, 1), Fin(5, 1))>>
    ELSE <<>>

\* the list strength_factors once every signal has been looked at
StrengthFactors(row) ==
    SmaCross(row) \o AboveSma200(row) \o Rsi(row) \o Macd(row) \o Adx(row)

\* sum(w for ... in factors)
RECURSIVE SumWeights(_)
SumWeights(fs) ==
    IF fs = <<>> THEN Fin(0, 1) ELSE FAdd(Head(fs).w, SumWeights(Tail(fs)))

\* the conditions `if d > 0` and `if d < 0`
IsBullish(f) == FGt(f.d, Fin(0, 1))
IsBearish(f) == FLt(f.d, Fin(0, 1))

BullishScore(fs) == SumWeights(SelectSeq(fs, IsBullish))
BearishScore(fs) == SumWeights(SelectSeq(fs, IsBearish))
TotalWeight(fs) == SumWeights(fs)

\* sum(d * w for ... in factors)
RECURSIVE SumSigned(_)
SumSigned(fs) ==
    IF fs = <<>>
    THEN Fin(0, 1)
    ELSE FAdd(FMul(Head(fs).d, Head(fs).w), SumSigned(Tail(fs)))

\* a slip of NetScore: each weight scaled by its direction, so that a
\* half direction counts for half its weight
NetScoreSigned(fs) == FMul(FDiv(SumSigned(fs), TotalWeight(fs)), Fin(100, 1))

\* net_score = (bullish_score - bearish_score) / total_weight * 100
NetScore(fs) ==
    FMul(FDiv(FSub(BullishScore(fs), BearishScore(fs)), TotalWeight(fs)), Fin(100, 1))

\* a slip of Classify: the two thresholds taken inclusive (>= 20, <= -20)
ClassifyInclusive(net) ==
    IF ~FLt(net, Fin(20, 1))
    THEN [trend |-> "bullish",
          strength |-> PyMin(FAdd(Fin(50, 1), FDiv(net, Fin(2, 1))), Fin(100, 1))]
    ELSE IF ~FGt(net, Fin(-20, 1))
    THEN [trend |-> "bearish",
          strength |-> PyMin(FAdd(Fin(50, 1), FDiv(FAbs(net), Fin(2, 1))), Fin(100, 1))]
    ELSE [trend |-> "neutral", strength |-> FSub(Fin(50, 1), FAbs(net))]

\* a slip of Classify: abs() forgotten in the bearish branch
ClassifySignedBearish(net) ==
    IF FGt(net, Fin(20, 1))
    THEN [trend |-> "bullish",
          strength |-> PyMin(FAdd(Fin(50, 1), FDiv(net, Fin(2, 1))), Fin(100, 1))]
    ELSE IF FLt(net, Fin(-20, 1))
    THEN [trend |-> "bearish",
          strength |-> PyMin(FAdd(Fin(50, 1), FDiv(net, Fin(2, 1))), Fin(100, 1))]
    ELSE [trend |-> "neutral", strength |-> FSub(Fin(50, 1), FAbs(net))]

\* the branch on net_score: trend and the strength before rounding
Classify(net) ==
    IF FGt(net, Fin(20, 1))
    THEN [trend |-> "bullish",
          strength |-> PyMin(FAdd(Fin(50, 1), FDiv(net, Fin(2, 1))), Fin(100, 1))]
    ELSE IF FLt(net, Fin(-20, 1))
    THEN [trend |-> "bearish",
          strength |-> PyMin(FAdd(Fin(50, 1), FDiv(FAbs(net), Fin(2, 1))), Fin(100, 1))]
    ELSE [trend |-> "neutral", strength |-> FSub(Fin(50, 1), FAbs(net))]

\* what _analyze_trend does once strength_factors is filled: the early
\* return on total_weight == 0, else net_score, the branch on it and the
\* rounding
TrendResult(fs) ==
    IF TotalWeight(fs) = Fin(0, 1)
    THEN [net |-> None, trend |-> "neutral", strength |-> Fin(50, 1)]
    ELSE LET net == NetScore(fs)
             c == Classify(net)
         IN  [net |-> net, trend |-> c.trend, strength |-> Round1(c.strength)]

\* the whole of _analyze_trend; on a frame without rows df.iloc[-1] raises
\* IndexError, which nothing in analyze catches
AnalyzeTrend ==
    /\ tpc = "start"
    /\ IF df = <<>>
       THEN /\ tpc' = "raised"
            /\ UNCHANGED <<strength_factors, net_score, trend, strength>>
       ELSE /\ LET fs == StrengthFactors(latest)
                   r == TrendResult(fs)
               IN  /\ strength_factors' = fs
                   /\ net_score' = r.net
                   /\ trend' = r.trend
                   /\ strength' = r.strength
            /\ tpc' = "done"
    /\ UNCHANGED latest
    /\ UNCHANGED nottrend

\* The windows the model draws from: each indicator column is absent or
\* holds one of a few values in the last row (NaN where the indicator has
\* no value yet); close is always there.
Absent == [c |-> "absent", n |-> 0, d |-> 1]

Row(vals) == [col \in {c \in DOMAIN vals : vals[c] # Absent} |-> vals[col]]

Sma20Values == {Absent, Fin(110, 1), Fin(90, 1), NaN}
Sma50Values == {Absent, Fin(100, 1)}
Sma200Values == {Absent, Fin(95, 1), Fin(120, 1), NaN}
RsiValues == {Absent, Fin(75, 1), Fin(25, 1), Fin(60, 1), Fin(40, 1), NaN}
MacdValues == {Absent, Fin(5, 1), Fin(1, 1), NaN}
MacdSignalValues == {Absent, Fin(2, 1)}
AdxValues ==
    {Absent, Fin(30, 1), Fin(20, 1), Fin(25, 1), Fin(75, 2), Fin(1501, 40),
     Fin(60, 1), NaN}

TrendInit ==
    /\ SyncIdle
    /\ \E s20 \in Sma20Values, s50 \in Sma50Values, s200 \in Sma200Values,
          rsi \in RsiValues, macd \in MacdValues, sig \in MacdSignalValues,
          adx \in AdxValues :
         latest = Row([close |-> Fin(112, 1), sma_20 |-> s20, sma_50 |-> s50,
                       sma_200 |-> s200, rsi_14 |-> rsi, macd |-> macd,
                       macd_signal |-> sig, adx_14 |-> adx])
    /\ tpc = "start"
    /\ strength_factors = <<>>
    /\ net_score = None
    /\ trend = ""
    /\ strength = None
    /\ response = JObj([error |-> JStr("overloaded")])
    /\ items = <<>>
    /\ idx = 1
    /\ patterns = <<>>
    /\ pc = "idle"
    /\ exc = ""
    /\ now = 0
    /\ results = <<>>
    /\ AnalyzeIdle
    /\ GenerateIdle

TrendNext == AnalyzeTrend

SpecTrend == TrendInit /\ [][TrendNext]_vars

---------------------------------------------------------------------------
\* The pattern detectors

\* df.tail(k)
TailRows(w, k) == IF Len(w) <= k THEN w ELSE SubSeq(w, Len(w) - k + 1, Len(w))

\* recent["high"], recent["low"], recent["close"]
Column(w, col) == [i \in 1..Len(w) |-> w[i][col]]

Range(f) == {f[i] : i \in DOMAIN f}

\* Series.max(), Series.min() and Series.idxmax(), Series.idxmin() (the
\* first row holding the extreme), on a series of finite values
SeriesMax(ser) == CHOOSE x \in Range(ser) : \A y \in Range(ser) : ~FLt(x, y)
SeriesMin(ser) == CHOOSE x \in Range(ser) : \A y \in Range(ser) : ~FLt(y, x)
IdxMax(ser) == Min({i \in DOMAIN ser : ser[i] = SeriesMax(ser)})
IdxMin(ser) == Min({i \in DOMAIN ser : ser[i] = SeriesMin(ser)})

DoubleLen == 50
TriangleLen == 30

\* the literal 0.02
Tolerance == Fin(2, 100)

DoubleTop(max_val) ==
    [name |-> "Double Top", direction |-> "bearish", confidence |-> Fin(6, 10),
     price_level |-> max_val, description |-> "double top forming"]

DoubleBottom(min_val) ==
    [name |-> "Double Bottom", direction |-> "bullish", confidence |-> Fin(6, 10),
     price_level |-> min_val, description |-> "double bottom forming"]

\* a slip of _detect_double_top_bottom: the length check left out, so that
\* a window of fewer than 50 rows is searched as well
DetectDoubleAnyLength(w) ==
    LET recent == TailRows(w, DoubleLen)
        highs == Column(recent, "high")
        lows == Column(recent, "low")
        max_val == SeriesMax(highs)
        min_val == SeriesMin(lows)
        near_peaks == {i \in DOMAIN highs :
                          /\ FGt(highs[i], FSub(max_val, FMul(max_val, Tolerance)))
                          /\ i # IdxMax(highs)}
        near_bottoms == {i \in DOMAIN lows :
                          /\ FLt(lows[i], FAdd(min_val, FMul(min_val, Tolerance)))
                          /\ i # IdxMin(lows)}
    IN  IF Cardinality(near_peaks) >= 1 THEN DoubleTop(max_val)
        ELSE IF Cardinality(near_bottoms) >= 1 THEN DoubleBottom(min_val)
        ELSE JNull

\* _detect_double_top_bottom
DetectDoubleTopBottom(w) ==
    IF Len(w) < DoubleLen
    THEN JNull
    ELSE LET recent == TailRows(w, DoubleLen)
             highs == Column(recent, "high")
             lows == Column(recent, "low")
             max_idx == IdxMax(highs)
             max_val == SeriesMax(highs)
             near_peaks == {i \in DOMAIN highs :
                               /\ FGt(highs[i], FSub(max_val, FMul(max_val, Tolerance)))
                               /\ i # max_idx}
             min_idx == IdxMin(lows)
             min_val == SeriesMin(lows)
             near_bottoms == {i \in DOMAIN lows :
                               /\ FLt(lows[i], FAdd(min_val, FMul(min_val, Tolerance)))
                               /\ i # min_idx}
         IN  IF Cardinality(near_peaks) >= 1 THEN DoubleTop(max_val)
             ELSE IF Cardinality(near_bottoms) >= 1 THEN DoubleBottom(min_val)
             ELSE JNull

\* _detect_head_shoulders, _detect_channel, _detect_wedge
DetectHeadShoulders(w) == JNull
DetectChannel(w) == JNull
DetectWedge(w) == JNull

\* the sums the least-squares fit is made of, x running over
\* range(len(ys)): of y and of x*y over the rows lo..hi (halving the range)
RECURSIVE SumY(_, _, _)
SumY(ys, lo, hi) ==
    IF lo > hi THEN Fin(0, 1)
    ELSE IF lo = hi THEN ys[lo]
    ELSE LET mid == (lo + hi) \div 2
         IN  FAdd(SumY(ys, lo, mid), SumY(ys, mid + 1, hi))

RECURSIVE SumXY(_, _, _)
SumXY(ys, lo, hi) ==
    IF lo > hi THEN Fin(0, 1)
    ELSE IF lo = hi THEN FMul(Fin(lo - 1, 1), ys[lo])
    ELSE LET mid == (lo + hi) \div 2
         IN  FAdd(SumXY(ys, lo, mid), SumXY(ys, mid + 1, hi))

\* of x and of x*x, for x = 0 .. n-1
SumX(n) == (n * (n - 1)) \div 2
SumXX(n) == ((n - 1) * n * (2 * n - 1)) \div 6

\* the least-squares slope of ys over x = range(len(ys))
Slope(ys) ==
    LET n == Len(ys)
        sy == SumY(ys, 1, n)
        sxy == SumXY(ys, 1, n)
    IN  FDiv(FSub(FMul(Fin(n, 1), sxy), FMul(Fin(SumX(n), 1), sy)),
             Fin(n * SumXX(n) - SumX(n) * SumX(n), 1))

\* the size of what rounding leaves of a slope that is exactly 0
Residue == Fin(1, 1000000)

\* np.polyfit(x, ys, 1)[0]: the least-squares slope as floating point
\* computes it.  A slope that is not 0 keeps its sign; a slope that is
\* exactly 0 may come out as 0 or as a tiny value of either sign.
Polyfit(ys) ==
    IF Slope(ys) = Fin(0, 1)
    THEN {Fin(0, 1), Residue, FSub(Fin(0, 1), Residue)}
    ELSE {Slope(ys)}

\* the literal 0.3
SlopeRatio == Fin(3, 10)

SymmetricalTriangle ==
    [name |-> "Symmetrical Triangle", direction |-> "neutral",
     confidence |-> Fin(5, 10), description |-> "symmetrical triangle forming"]

DescendingTriangle ==
    [name |-> "Descending Triangle", direction |-> "bearish",
     confidence |-> Fin(55, 100), description |-> "descending triangle forming"]

AscendingTriangle ==
    [name |-> "Ascending Triangle", direction |-> "bullish",
     confidence |-> Fin(55, 100), description |-> "ascending triangle forming"]

\* a slip of TriangleOf: the ratio tests made without the test of the sign
TriangleUnsigned(high_slope, low_slope) ==
    IF FLt(high_slope, Fin(0, 1)) /\ FGt(low_slope, Fin(0, 1))
    THEN SymmetricalTriangle
    ELSE IF FLt(FAbs(low_slope), FMul(FAbs(high_slope), SlopeRatio))
    THEN DescendingTriangle
    ELSE IF FLt(FAbs(high_slope), FMul(FAbs(low_slope), SlopeRatio))
    THEN AscendingTriangle
    ELSE JNull

\* a slip of TriangleOf: the ratio tests made before the symmetrical one
TriangleRatioFirst(high_slope, low_slope) ==
    IF FLt(high_slope, Fin(0, 1)) /\ FLt(FAbs(low_slope), FMul(FAbs(high_slope), SlopeRatio))
    THEN DescendingTriangle
    ELSE IF FGt(low_slope, Fin(0, 1)) /\ FLt(FAbs(high_slope), FMul(FAbs(low_slope), SlopeRatio))
    THEN AscendingTriangle
    ELSE IF FLt(high_slope, Fin(0, 1)) /\ FGt(low_slope, Fin(0, 1))
    THEN SymmetricalTriangle
    ELSE JNull

\* the if / elif / elif of _detect_triangle
TriangleOf(high_slope, low_slope) ==
    IF FLt(high_slope, Fin(0, 1)) /\ FGt(low_slope, Fin(0, 1))
    THEN SymmetricalTriangle
    ELSE IF FLt(high_slope, Fin(0, 1)) /\ FLt(FAbs(low_slope), FMul(FAbs(high_slope), SlopeRatio))
    THEN DescendingTriangle
    ELSE IF FGt(low_slope, Fin(0, 1)) /\ FLt(FAbs(high_slope), FMul(FAbs(low_slope), SlopeRatio))
    THEN AscendingTriangle
    ELSE JNull

\* the values np.polyfit can have on the window w.  It is a function: the
\* value it has on a series is the same in every call.
SlopesOf(w) ==
    IF Len(w) < TriangleLen
    THEN {<<>>}
    ELSE LET recent == TailRows(w, TriangleLen)
         IN  Polyfit(Column(recent, "high")) \X Polyfit(Column(recent, "low"))

\* _detect_triangle
DetectTriangle(w) ==
    IF Len(w) < TriangleLen
    THEN JNull
    ELSE LET high_slope == slopes[1]
             low_slope == slopes[2]
         IN  TriangleOf(high_slope, low_slope)

\* detector(df): the outcomes the call can have
RunDetector(d, w) ==
    CASE d.fn = "_detect_double_top_bottom" -> {Ok(DetectDoubleTopBottom(w))}
      [] d.fn = "_detect_head_shoulders" -> {Ok(DetectHeadShoulders(w))}
      [] d.fn = "_detect_triangle" -> {Ok(DetectTriangle(w))}
      [] d.fn = "_detect_channel" -> {Ok(DetectChannel(w))}
      [] d.fn = "_detect_wedge" -> {Ok(DetectWedge(w))}
      [] d.fn = "stand_in" -> {d.out}

\* `if pattern:` None and the empty dict are false
Truthy(v) == v # JNull /\ DOMAIN v # {}

---------------------------------------------------------------------------
\* TechnicalAnalyzer._detect_patterns

\* a slip of DetectStep: the try around the loop, so that the first
\* detector that raises ends it
DetectStepAbortOnError ==
    /\ apc = "detect"
    /\ tpc \in {"idle", "done"}
    /\ di <= Len(pattern_detectors)
    /\ \E out \in RunDetector(pattern_detectors[di], df) :
         /\ invoked' = Append(invoked, di)
         /\ IF ~out.ok
            THEN /\ logged' = Append(logged, out.exc)
                 /\ di' = Len(pattern_detectors) + 1
                 /\ UNCHANGED detected
            ELSE /\ detected' = IF Truthy(out.val) THEN Append(detected, out.val)
                                ELSE detected
                 /\ di' = di + 1
                 /\ UNCHANGED logged
    /\ UNCHANGED <<first_result, df, slopes, pattern_detectors>>
    /\ UNCHANGED <<apc, indicators, sr_levels, summary>>
    /\ UNCHANGED notanalyze

\* one turn of the loop: the detector is called; a result that is true is
\* appended, an exception is logged and the loop goes on
DetectStep ==
    /\ apc = "detect"
    /\ tpc \in {"idle", "done"}
    /\ di <= Len(pattern_detectors)
    /\ \E out \in RunDetector(pattern_detectors[di], df) :
         /\ invoked' = Append(invoked, di)
         /\ IF ~out.ok
            THEN /\ logged' = Append(logged, out.exc)
                 /\ UNCHANGED detected
            ELSE /\ detected' = IF Truthy(out.val) THEN Append(detected, out.val)
                                ELSE detected
                 /\ UNCHANGED logged
    /\ di' = di + 1
    /\ UNCHANGED <<first_result, df, slopes, pattern_detectors>>
    /\ UNCHANGED <<apc, indicators, sr_levels, summary>>
    /\ UNCHANGED notanalyze

\* return patterns
DetectReturn ==
    /\ apc = "detect"
    /\ tpc \in {"idle", "done"}
    /\ di > Len(pattern_detectors)
    /\ apc' = "detected"
    /\ UNCHANGED <<first_result, df, slopes, pattern_detectors>>
    /\ UNCHANGED <<di, detected, invoked, logged,
                   indicators, sr_levels, summary>>
    /\ UNCHANGED notanalyze

\* _detect_patterns on an analyzer whose five detectors are stand-ins, each
\* returning a pattern, returning None or raising
StandInPattern(i) ==
    [name |-> "Pattern", direction |-> "neutral", confidence |-> Fin(5, 10),
     price_level |-> Fin(i, 1), description |-> "stand-in"]

OutcomeKinds == {"pattern", "none", "ValueError", "KeyError"}

Outcome(kind, i) ==
    CASE kind = "pattern" -> Ok(StandInPattern(i))
      [] kind = "none" -> Ok(JNull)
      [] OTHER -> Raise(kind)

DetectInit ==
    /\ SyncIdle
    /\ \E kinds \in [1..Len(RegisteredDetectors) -> OutcomeKinds] :
         pattern_detectors = [i \in 1..Len(RegisteredDetectors) |->
                                 StandIn(Outcome(kinds[i], i))]
    /\ df = <<Candle(Fin(112, 1), Fin(112, 1), Fin(112, 1))>>
    /\ slopes = <<>>
    /\ di = 1
    /\ detected = <<>>
    /\ invoked = <<>>
    /\ logged = <<>>
    /\ apc = "detect"
    /\ indicators = None
    /\ sr_levels = None
    /\ summary = <<>>
    /\ first_result = None
    /\ latest = [col \in {"close"} |-> Fin(112, 1)]
    /\ tpc = "idle"
    /\ strength_factors = <<>>
    /\ net_score = None
    /\ trend = ""
    /\ strength = None
    /\ response = JObj([error |-> JStr("overloaded")])
    /\ items = <<>>
    /\ idx = 1
    /\ patterns = <<>>
    /\ pc = "idle"
    /\ exc = ""
    /\ now = 0
    /\ results = <<>>
    /\ GenerateIdle

DetectNext == DetectStep \/ DetectReturn

SpecDetect == DetectInit /\ [][DetectNext]_vars

---------------------------------------------------------------------------
\* calculate_support_resistance

Lookback == 50

\* sorted(), on finite floats: entry k is the value that has fewer than k
\* values below it and at least k values not above it
KthSmallest(s, k) ==
    CHOOSE v \in Range(s) :
        /\ Cardinality({i \in DOMAIN s : FLt(s[i], v)}) < k
        /\ Cardinality({i \in DOMAIN s : ~FLt(v, s[i])}) >= k

SortAsc(s) == [k \in 1..Len(s) |-> KthSmallest(s, k)]

\* sorted(..., reverse=True)
SortDesc(s) == Reverse(SortAsc(s))

\* a slip of NLargest: equal values taken once
NLargestDistinct(k, ser) ==
    LET vals == Range(ser)
        above(v) == Cardinality({u \in vals : FLt(v, u)})
        kept == {v \in vals : above(v) < k}
    IN  [j \in 1..Cardinality(kept) |-> CHOOSE v \in kept : above(v) = j - 1]

\* recent_df.nlargest(3, "high")["high"].tolist() and the like: the k
\* greatest (least) values, greatest (least) first
NLargest(k, ser) ==
    [j \in 1..(IF Len(ser) < k THEN Len(ser) ELSE k) |->
        KthSmallest(ser, Len(ser) + 1 - j)]

NSmallest(k, ser) ==
    [j \in 1..(IF Len(ser) < k THEN Len(ser) ELSE k) |-> KthSmallest(ser, j)]

\* a slip of SupportResistance: the close of the first row of the window
\* taken for the last
SupportResistanceFirstClose(w, lookback) ==
    LET recent_df == TailRows(w, lookback)
        high == SeriesMax(Column(recent_df, "high"))
        low == SeriesMin(Column(recent_df, "low"))
        close == recent_df[1].close
        pivot == FDiv(FAdd(FAdd(high, low), close), Fin(3, 1))
        r1 == FSub(FMul(Fin(2, 1), pivot), low)
        r2 == FAdd(pivot, FSub(high, low))
        r3 == FAdd(high, FMul(Fin(2, 1), FSub(pivot, low)))
        s1 == FSub(FMul(Fin(2, 1), pivot), high)
        s2 == FSub(pivot, FSub(high, low))
        s3 == FSub(low, FMul(Fin(2, 1), FSub(high, pivot)))
        recent_highs == NLargest(3, Column(recent_df, "high"))
        recent_lows == NSmallest(3, Column(recent_df, "low"))
    IN  [c |-> "levels", high |-> high, low |-> low, close |-> close,
         pivot |-> pivot, r1 |-> r1, r2 |-> r2, r3 |-> r3,
         s1 |-> s1, s2 |-> s2, s3 |-> s3,
         resistance |-> SortDesc(<<r1, r2, r3>> \o recent_highs),
         support |-> SortAsc(<<s1, s2, s3>> \o recent_lows)]

\* a slip of SupportResistance: the levels taken over the whole frame
SupportResistanceWholeFrame(w, lookback) ==
    LET high == SeriesMax(Column(w, "high"))
        low == SeriesMin(Column(w, "low"))
        close == w[Len(w)].close
        pivot == FDiv(FAdd(FAdd(high, low), close), Fin(3, 1))
        r1 == FSub(FMul(Fin(2, 1), pivot), low)
        r2 == FAdd(pivot, FSub(high, low))
        r3 == FAdd(high, FMul(Fin(2, 1), FSub(pivot, low)))
        s1 == FSub(FMul(Fin(2, 1), pivot), high)
        s2 == FSub(pivot, FSub(high, low))
        s3 == FSub(low, FMul(Fin(2, 1), FSub(high, pivot)))
    IN  [c |-> "levels", high |-> high, low |-> low, close |-> close,
         pivot |-> pivot, r1 |-> r1, r2 |-> r2, r3 |-> r3,
         s1 |-> s1, s2 |-> s2, s3 |-> s3,
         resistance |-> SortDesc(<<r1, r2, r3>> \o NLargest(3, Column(w, "high"))),
         support |-> SortAsc(<<s1, s2, s3>> \o NSmallest(3, Column(w, "low")))]

\* calculate_support_resistance(df, lookback): the returned pivot,
\* resistance and support, with the locals they are made of
SupportResistance(w, lookback) ==
    LET recent_df == TailRows(w, lookback)
        high == SeriesMax(Column(recent_df, "high"))
        low == SeriesMin(Column(recent_df, "low"))
        close == recent_df[Len(recent_df)].close
        pivot == FDiv(FAdd(FAdd(high, low), close), Fin(3, 1))
        r1 == FSub(FMul(Fin(2, 1), pivot), low)
        r2 == FAdd(pivot, FSub(high, low))
        r3 == FAdd(high, FMul(Fin(2, 1), FSub(pivot, low)))
        s1 == FSub(FMul(Fin(2, 1), pivot), high)
        s2 == FSub(pivot, FSub(high, low))
        s3 == FSub(low, FMul(Fin(2, 1), FSub(high, pivot)))
        recent_highs == NLargest(3, Column(recent_df, "high"))
        recent_lows == NSmallest(3, Column(recent_df, "low"))
    IN  [c |-> "levels", high |-> high, low |-> low, close |-> close,
         pivot |-> pivot, r1 |-> r1, r2 |-> r2, r3 |-> r3,
         s1 |-> s1, s2 |-> s2, s3 |-> s3,
         resistance |-> SortDesc(<<r1, r2, r3>> \o recent_highs),
         support |-> SortAsc(<<s1, s2, s3>> \o recent_lows)]

---------------------------------------------------------------------------
\* TechnicalAnalyzer.analyze, after _analyze_trend and _detect_patterns

\* round(x, 2) of a finite x
Round2(x) ==
    LET n == x.n * 100
        q == n \div x.d
        r == n - q * x.d
        up == \/ 2 * r > x.d
              \/ 2 * r = x.d /\ q % 2 = 1
    IN  Fin(IF up THEN q + 1 ELSE q, 100)

\* indicator_columns
IndicatorNames ==
    {"rsi_14", "macd", "macd_signal", "macd_histogram", "adx_14", "bb_upper",
     "bb_middle", "bb_lower", "sma_20", "sma_50", "sma_200", "atr_14",
     "stoch_k", "stoch_d"}

\* _summarize_indicators
SummarizeIndicators ==
    /\ apc = "detected"
    /\ LET shown == {col \in IndicatorNames \cap DOMAIN latest : latest[col] # NaN}
       IN  indicators' =
               [col \in shown \cup {"current_price", "volume"} |->
                   IF col = "current_price" THEN Round2(latest["close"])
                   ELSE IF col = "volume" THEN Round2(df[Len(df)].volume)
                   ELSE Round2(latest[col])]
    /\ apc' = "summarized"
    /\ UNCHANGED <<first_result, df, slopes, pattern_detectors>>
    /\ UNCHANGED <<di, detected, invoked, logged,
                   sr_levels, summary>>
    /\ UNCHANGED notanalyze

\* _calculate_sr_levels: calculate_support_resistance(df)
CalculateSrLevels ==
    /\ apc = "summarized"
    /\ sr_levels' = SupportResistance(df, Lookback)
    /\ apc' = "levels"
    /\ UNCHANGED <<first_result, df, slopes, pattern_detectors>>
    /\ UNCHANGED <<di, detected, invoked, logged,
                   indicators, summary>>
    /\ UNCHANGED notanalyze

\* the parts of _generate_summary
RsiPart(ind) ==
    IF "rsi_14" \in DOMAIN ind
    THEN IF FGt(ind["rsi_14"], Fin(70, 1))
         THEN <<[part |-> "rsi overbought", rsi |-> ind["rsi_14"]]>>
         ELSE IF FLt(ind["rsi_14"], Fin(30, 1))
         THEN <<[part |-> "rsi oversold", rsi |-> ind["rsi_14"]]>>
         ELSE <<>>
    ELSE <<>>

PatternPart(ps) ==
    IF ps # <<>>
    THEN <<[part |-> "patterns", names |-> [i \in 1..Len(ps) |-> ps[i].name]]>>
    ELSE <<>>

\* _generate_summary, and the return of analyze
GenerateSummary ==
    /\ apc = "levels"
    /\ summary' = <<[part |-> "trend", trend |-> trend, strength |-> strength]>>
                  \o RsiPart(indicators) \o PatternPart(detected)
    /\ apc' = "returned"
    /\ UNCHANGED <<first_result, df, slopes, pattern_detectors>>
    /\ UNCHANGED <<di, detected, invoked, logged,
                   indicators, sr_levels>>
    /\ UNCHANGED notanalyze

\* The windows analyze is run on.  Peak windows: every candle has high 90
\* and low 60, but for the candles 40 and 20 rows before the last, whose
\* highs and lows are drawn from a few pairs around the 2% tolerance, and
\* for the candle 50 rows before the last (outside every trailing window),
\* which may be a spike.  Ramp windows: highs and lows on straight lines of a
\* few slopes.  Curved windows: highs falling and lows rising along a
\* parabola.  Spike windows: a last candle that closes beyond the highs, or
\* the lows, of the candles before it.  And the frame without rows.
Lengths == {1, 29, 30, 49, 50, 51}

CloseAt(i) == i % 7

HighPairs ==
    {<<Fin(90, 1), Fin(90, 1)>>, <<Fin(100, 1), Fin(90, 1)>>,
     <<Fin(100, 1), Fin(98, 1)>>, <<Fin(100, 1), Fin(99, 1)>>,
     <<Fin(100, 1), Fin(100, 1)>>, <<Fin(98, 1), Fin(100, 1)>>}

LowPairs ==
    {<<Fin(60, 1), Fin(60, 1)>>, <<Fin(50, 1), Fin(60, 1)>>,
     <<Fin(50, 1), Fin(51, 1)>>, <<Fin(50, 1), Fin(101, 2)>>,
     <<Fin(50, 1), Fin(50, 1)>>, <<Fin(51, 1), Fin(50, 1)>>}

OldCandles == {<<Fin(90, 1), Fin(60, 1)>>, <<Fin(120, 1), Fin(40, 1)>>}

PeakWindow(n, hp, lp, old) ==
    [i \in 1..n |->
        LET hl == IF i = n - 40 THEN <<hp[1], lp[1]>>
                  ELSE IF i = n - 20 THEN <<hp[2], lp[2]>>
                  ELSE IF i = n - 50 THEN old
                  ELSE <<Fin(90, 1), Fin(60, 1)>>
        IN  Candle(hl[1], hl[2], Fin(70 + CloseAt(i), 1))]

Steps == {-10, -1, 0, 1, 10}

RampLengths == {29, 30, 51}

RampWindow(n, a, b) ==
    [i \in 1..n |->
        Candle(Fin(1700 + a * (i - n), 1), Fin(600 + b * (i - n), 1),
               Fin(1150 + CloseAt(i), 1))]

CurvedLengths == {30, 51}

CurvedWindow(n) ==
    [i \in 1..n |->
        Candle(Fin(4500 + (n - i) * (n - i), 10), Fin(3500 - (n - i) * (n - i), 10),
               Fin(400 + CloseAt(i), 1))]

SpikeLengths == {3, 50}

\* <<high, low, close>> of the last candle: a close above the highs before
\* it, or below the lows before it
LastCandles ==
    {<<Fin(100, 1), Fin(85, 1), Fin(95, 1)>>, <<Fin(65, 1), Fin(40, 1), Fin(45, 1)>>}

SpikeWindow(n, last) ==
    [i \in 1..n |->
        IF i = n THEN Candle(last[1], last[2], last[3])
        ELSE Candle(Fin(90, 1), Fin(60, 1), Fin(70 + CloseAt(i), 1))]

Windows ==
    {PeakWindow(n, hp, lp, old) :
        n \in Lengths, hp \in HighPairs, lp \in LowPairs, old \in OldCandles}
    \cup {RampWindow(n, a, b) : n \in RampLengths, a \in Steps, b \in Steps}
    \cup {CurvedWindow(n) : n \in CurvedLengths}
    \cup {SpikeWindow(n, last) : n \in SpikeLengths, last \in LastCandles}
    \cup {<<>>}

\* the indicator columns of the frame, with the last row's values: none
\* (a frame without indicators), or a few of them
NoIndicators == [col \in {} |-> NaN]

IndicatorSets ==
    {NoIndicators,
     [sma_200 |-> Fin(95, 1), rsi_14 |-> Fin(75, 1)],
     [rsi_14 |-> NaN, macd |-> Fin(5, 1), macd_signal |-> Fin(2, 1)]}

\* df.iloc[-1] (a frame without rows has no last row; the variable then
\* holds the columns only)
LatestRow(w, ind) ==
    [col \in {"close"} \cup DOMAIN ind |->
        IF w = <<>> THEN NaN
        ELSE IF col = "close" THEN w[Len(w)].close ELSE ind[col]]

\* analyze(df) on an analyzer as constructed
AnalyzeInit ==
    /\ SyncIdle
    /\ df \in Windows
    /\ slopes \in SlopesOf(df)
    /\ \E ind \in IndicatorSets : latest = LatestRow(df, ind)
    /\ pattern_detectors = RegisteredDetectors
    /\ di = 1
    /\ detected = <<>>
    /\ invoked = <<>>
    /\ logged = <<>>
    /\ apc = "detect"
    /\ indicators = None
    /\ sr_levels = None
    /\ summary = <<>>
    /\ first_result = None
    /\ tpc = "start"
    /\ strength_factors = <<>>
    /\ net_score = None
    /\ trend = ""
    /\ strength = None
    /\ response = JObj([error |-> JStr("overloaded")])
    /\ items = <<>>
    /\ idx = 1
    /\ patterns = <<>>
    /\ pc = "idle"
    /\ exc = ""
    /\ now = 0
    /\ results = <<>>
    /\ GenerateIdle

AnalyzeNext ==
    \/ AnalyzeTrend
    \/ DetectStep
    \/ DetectReturn
    \/ SummarizeIndicators
    \/ CalculateSrLevels
    \/ GenerateSummary

SpecAnalyze == AnalyzeInit /\ [][AnalyzeNext]_vars

---------------------------------------------------------------------------
\* Predictor._build_prompt

\* The prompt is kept as the list of lines that "\n".join puts together.
\* A line is a list of pieces: the literal texts of the f-string (the
\* Japanese ones in English) and the texts put in as they are, and each
\* other replacement field with the format of its type.
Text(s) == [fmt |-> "text", v |-> s]                \* literal, or {v} of a str
Shown(v) == [fmt |-> "float", v |-> v]              \* {v} of a float
ShownInt(v) == [fmt |-> "int", v |-> v]             \* {v} of an int
ShownList(v) == [fmt |-> "list", v |-> v]           \* {v} of a list
ShownSummary(v) == [fmt |-> "summary", v |-> v]     \* {v} of the summary text
Money(v) == [fmt |-> ",.2f", v |-> v]               \* {v:,.2f}
Joined(s) == [fmt |-> "join", sep |-> ", ", v |-> s]  \* ', '.join(s)

BlankLine == <<Text("")>>

\* the order in which the dict _summarize_indicators fills is walked
IndicatorOrder ==
    <<"rsi_14", "macd", "macd_signal", "macd_histogram", "adx_14", "bb_upper",
      "bb_middle", "bb_lower", "sma_20", "sma_50", "sma_200", "atr_14",
      "stoch_k", "stoch_d", "current_price", "volume">>

\* for key, value in technical_analysis.indicators.items()
IndicatorLines(ind) ==
    LET present(key) == key \in DOMAIN ind
        keys == SelectSeq(IndicatorOrder, present)
    IN  [i \in 1..Len(keys) |->
            <<Text("- "), Text(keys[i]), Text(": "), Shown(ind[keys[i]])>>]

\* support_resistance.get(key, [])
LevelsGet(sr, key) == IF key \in DOMAIN sr THEN sr[key] ELSE <<>>

LevelLines(sr) ==
    << BlankLine,
       <<Text("## support and resistance")>>,
       <<Text("- resistance: "), ShownList(LevelsGet(sr, "resistance"))>>,
       <<Text("- support: "), ShownList(LevelsGet(sr, "support"))>> >>

\* pattern['name'] and pattern.get('description', '')
PatternLine(p) ==
    <<Text("- "), Text(p.name), Text(": "),
      Text(IF "description" \in DOMAIN p THEN p.description ELSE "")>>

PatternHeading == <<Text("## detected chart patterns")>>

\* a slip of PatternLines: the heading written for an empty list too
PatternLinesAlways(ps) ==
    <<BlankLine, PatternHeading>> \o [i \in 1..Len(ps) |-> PatternLine(ps[i])]

\* if technical_analysis.patterns: the heading and one line per pattern
PatternLines(ps) ==
    IF ps # <<>>
    THEN <<BlankLine, PatternHeading>> \o [i \in 1..Len(ps) |-> PatternLine(ps[i])]
    ELSE <<>>

ContextHeading == <<Text("## fundamentals and news")>>

\* if news_context: None and the empty text are false
ContextLines(ctx) ==
    IF ctx # JNull /\ ctx # JStr("")
    THEN <<BlankLine, ContextHeading, <<Text(ctx.s)>>>>
    ELSE <<>>

RequirementLines(n, tfs) ==
    << BlankLine,
       <<Text("## output requirements")>>,
       <<Text("- generate **exactly "), ShownInt(n),
         Text("** different price scenarios (fewer than "), ShownInt(n),
         Text(" is not allowed)")>>,
       <<Text("- horizons: "), Joined(tfs)>>,
       <<Text("- give each scenario a probability, a target price, a reasoning and key levels")>>,
       <<Text("- balance rising, falling and sideways scenarios")>>,
       <<Text("- keep the sum of the probabilities at or under 100%")>>,
       BlankLine,
       <<Text("answer in the following JSON format:")>>,
       <<Text("(the JSON example: one pattern with all its fields)")>> >>

\* _build_prompt: the lines, or the KeyError of a pattern without a name
BuildPrompt(ta, price, tfs, n, ctx) ==
    IF \E i \in DOMAIN ta.patterns : "name" \notin DOMAIN ta.patterns[i]
    THEN Raise("KeyError")
    ELSE Ok(<< <<Text("# bitcoin price prediction request")>>,
               BlankLine,
               <<Text("## current price: $"), Money(price)>>,
               BlankLine,
               <<Text("## technical analysis summary")>>,
               <<Text("- trend: "), Text(ta.trend), Text(" (strength: "),
                 Shown(ta.strength), Text("%)")>>,
               <<Text("- analysis: "), ShownSummary(ta.summary)>>,
               BlankLine,
               <<Text("## indicator values")>> >>
            \o IndicatorLines(ta.indicators)
            \o LevelLines(ta.support_resistance)
            \o PatternLines(ta.patterns)
            \o ContextLines(ctx)
            \o RequirementLines(n, tfs))

\* a call of _build_prompt
BuildPromptCall ==
    /\ gpc = "build"
    /\ LET r == BuildPrompt(technical_analysis, current_price, timeframes.e,
                            num_patterns, news_context)
       IN  IF r.ok
           THEN prompt' = r.val /\ gpc' = "built" /\ UNCHANGED outcome
           ELSE outcome' = r /\ gpc' = "raised" /\ UNCHANGED prompt
    /\ builds' = builds + 1
    /\ UNCHANGED <<client, technical_analysis, current_price, timeframes,
                   num_patterns, news_context, attempt, glog, requests, content,
                   parsed>>
    /\ UNCHANGED pvars
    /\ UNCHANGED notgenerate

\* The AnalysisResults the prompt is built from: what analyze returns (its
\* patterns all carry a name; the description may be missing in a pattern
\* of a detector added later)
PatternLists ==
    {<<>>,
     <<DoubleTop(Fin(100, 1))>>,
     <<[name |-> "Flag", direction |-> "bullish", confidence |-> Fin(1, 2)]>>,
     <<DoubleTop(Fin(100, 1)), SymmetricalTriangle>>,
     <<SymmetricalTriangle, DoubleTop(Fin(100, 1))>>,
     <<DoubleBottom(Fin(50, 1)), DoubleBottom(Fin(50, 1))>>}

IndicatorDicts ==
    {[col \in {"current_price", "volume"} |-> Fin(70, 1)],
     [col \in {"rsi_14", "current_price", "volume"} |->
         IF col = "rsi_14" THEN Fin(75, 1) ELSE Fin(70, 1)],
     [col \in {"macd", "sma_20", "stoch_d", "current_price", "volume"} |->
         IF col = "macd" THEN Fin(-5, 1) ELSE Fin(70, 1)]}

LevelDicts ==
    {[pivot |-> Fin(75, 1),
      resistance |-> <<Fin(110, 1), Fin(100, 1), Fin(100, 1), Fin(90, 1), Fin(90, 1), Fin(80, 1)>>,
      support |-> <<Fin(40, 1), Fin(50, 1), Fin(60, 1), Fin(60, 1), Fin(60, 1), Fin(70, 1)>>],
     [pivot |-> Fin(75, 1), resistance |-> <<>>, support |-> <<>>],
     [pivot |-> Fin(75, 1)]}

AnalysisResults ==
    {[trend |-> "bullish", strength |-> Fin(87, 1), patterns |-> ps,
      indicators |-> ind, support_resistance |-> sr,
      summary |-> <<[part |-> "trend", trend |-> "bullish", strength |-> Fin(87, 1)]>>] :
        ps \in PatternLists, ind \in IndicatorDicts, sr \in LevelDicts}

TimeframeLists ==
    {<<>>, <<"1week">>, <<"1week", "1month">>, <<"1month", "1week">>}

PatternCounts == {1, 3, 10}

Contexts == {JNull, JStr(""), JStr("ETF inflows rise")}

PromptInit ==
    /\ SyncIdle
    /\ client = TRUE
    /\ technical_analysis \in AnalysisResults
    /\ current_price = Fin(70, 1)
    /\ timeframes \in {JList(l) : l \in TimeframeLists}
    /\ num_patterns \in PatternCounts
    /\ news_context \in Contexts
    /\ gpc = "build"
    /\ attempt = 1
    /\ prompt = <<>>
    /\ builds = 0
    /\ glog = <<>>
    /\ requests = <<>>
    /\ content = Unbound
    /\ parsed = <<>>
    /\ outcome = None
    /\ AnalyzeIdle
    /\ latest = [col \in {"close"} |-> Fin(112, 1)]
    /\ tpc = "idle"
    /\ strength_factors = <<>>
    /\ net_score = None
    /\ trend = ""
    /\ strength = None
    /\ response = JObj([error |-> JStr("overloaded")])
    /\ items = <<>>
    /\ idx = 1
    /\ patterns = <<>>
    /\ pc = "idle"
    /\ exc = ""
    /\ now = 0
    /\ results = <<>>

PromptNext == BuildPromptCall

SpecPrompt == PromptInit /\ [][PromptNext]_vars

---------------------------------------------------------------------------
\* Predictor.generate_predictions, under @retry(stop=stop_after_attempt(3))

MaxAttempts == 3

\* timeframes = ["1week", "2weeks", "1month"] when the argument is None
DefaultTimeframes == <<"1week", "2weeks", "1month">>

\* the content of a completion: None, or a text; a text that is a JSON
\* document is kept with the value it is the serialisation of
JsonText(doc) == [k |-> "json", doc |-> doc]

\* json.loads(content)
JsonLoads(c) ==
    IF c.k = "json" THEN Ok(c.doc) ELSE Raise("JSONDecodeError")

\* `if not content`: None and the empty text
NoContent(c) == c = JNull \/ c = JStr("")

LogEntry(msg, detail) == [msg |-> msg, detail |-> detail]

\* a slip of Retry: the last failure reported as an empty list
RetryReturningEmpty(e) ==
    IF attempt < MaxAttempts
    THEN /\ attempt' = attempt + 1
         /\ gpc' = "call"
         /\ UNCHANGED outcome
    ELSE /\ gpc' = "returned"
         /\ outcome' = Ok(<<>>)
         /\ UNCHANGED attempt

\* what the retry decorator does with an exception e that leaves the
\* function: another attempt (after the wait) while fewer than 3 were made,
\* RetryError to the caller after the third
Retry(e) ==
    IF attempt < MaxAttempts
    THEN /\ attempt' = attempt + 1
         /\ gpc' = "call"
         /\ UNCHANGED outcome
    ELSE /\ gpc' = "raised"
         /\ outcome' = Raise("RetryError")
         /\ UNCHANGED attempt

\* lines 119-133: the start of an attempt, up to the prompt (the locals of
\* the attempt before are gone, and no call of _parse_patterns is running)
StartAttempt ==
    /\ gpc = "call"
    /\ IF ~client
       THEN /\ glog' = Append(glog, LogEntry("no client", ""))
            /\ outcome' = Ok(<<>>)
            /\ gpc' = "returned"
            /\ UNCHANGED <<prompt, builds, attempt>>
       ELSE LET tfs == IF timeframes = JNull THEN DefaultTimeframes
                       ELSE timeframes.e
                r == BuildPrompt(technical_analysis, current_price, tfs,
                                 num_patterns, news_context)
            IN  /\ builds' = builds + 1
                /\ UNCHANGED glog
                /\ IF r.ok
                   THEN /\ prompt' = r.val
                        /\ gpc' = "built"
                        /\ UNCHANGED <<attempt, outcome>>
                   ELSE /\ Retry(r.exc)
                        /\ UNCHANGED prompt
    /\ content' = Unbound
    /\ pc' = "idle"
    /\ UNCHANGED <<client, technical_analysis, current_price, timeframes,
                   num_patterns, news_context, requests, parsed>>
    /\ UNCHANGED <<response, items, idx, patterns, exc, now, results>>
    /\ UNCHANGED notgenerate

\* a slip of AfterContent: a decode error handled like any other error
AfterContentRetryingDecodeError(c) ==
    IF NoContent(c) THEN "empty"
    ELSE IF ~JsonLoads(c).ok THEN "error"
    ELSE "parse"

\* lines 164-177, on the content received: return [] on no content, return
\* [] on a decode error, else _parse_patterns
AfterContent(c) ==
    IF NoContent(c) THEN "empty"
    ELSE IF ~JsonLoads(c).ok THEN "not json"
    ELSE "parse"

\* lines 148-170 and 175-180: the request is sent; the collaborator raises
\* (or returns no choice), or returns a completion with content c
CallCollaborator(c, e) ==
    /\ gpc = "built"
    /\ requests' = Append(requests, prompt)
    /\ IF e # ""
       THEN /\ glog' = Append(glog, LogEntry("failed", e))
            /\ Retry(e)
            /\ UNCHANGED <<content, parsed, pvars>>
       ELSE /\ content' = c
            /\ CASE AfterContent(c) = "empty" ->
                      /\ glog' = Append(glog, LogEntry("empty", ""))
                      /\ outcome' = Ok(<<>>)
                      /\ gpc' = "returned"
                      /\ UNCHANGED <<attempt, parsed, pvars>>
                 [] AfterContent(c) = "not json" ->
                      /\ glog' = Append(glog, LogEntry("not json", ""))
                      /\ outcome' = Ok(<<>>)
                      /\ gpc' = "returned"
                      /\ UNCHANGED <<attempt, parsed, pvars>>
                 [] AfterContent(c) = "error" ->
                      /\ glog' = Append(glog, LogEntry("failed", JsonLoads(c).exc))
                      /\ Retry(JsonLoads(c).exc)
                      /\ UNCHANGED <<parsed, pvars>>
                 [] AfterContent(c) = "parse" ->
                      /\ parsed' = Append(parsed, JsonLoads(c).val)
                      /\ response' = JsonLoads(c).val
                      /\ pc' = "call"
                      /\ items' = <<>>
                      /\ idx' = 1
                      /\ patterns' = <<>>
                      /\ exc' = ""
                      /\ gpc' = "parse"
                      /\ UNCHANGED <<now, results, glog, attempt, outcome>>
    /\ UNCHANGED <<client, technical_analysis, current_price, timeframes,
                   num_patterns, news_context, prompt, builds>>
    /\ UNCHANGED notgenerate

\* lines 170-173: _parse_patterns returned
ParseReturned ==
    /\ gpc = "parse"
    /\ pc = "returned"
    /\ glog' = Append(glog, LogEntry("generated", ""))
    /\ outcome' = Ok(patterns)
    /\ gpc' = "returned"
    /\ UNCHANGED <<client, technical_analysis, current_price, timeframes,
                   num_patterns, news_context, attempt, prompt, builds,
                   requests, content, parsed>>
    /\ UNCHANGED pvars
    /\ UNCHANGED notgenerate

\* lines 178-180: _parse_patterns raised
ParseRaised ==
    /\ gpc = "parse"
    /\ pc = "raised"
    /\ glog' = Append(glog, LogEntry("failed", exc))
    /\ Retry(exc)
    /\ UNCHANGED <<client, technical_analysis, current_price, timeframes,
                   num_patterns, news_context, prompt, builds, requests,
                   content, parsed>>
    /\ UNCHANGED pvars
    /\ UNCHANGED notgenerate

\* What the collaborator can answer.  Errors: of the API, or a completion
\* without choices.  Contents: none, the empty text, a text that is not
\* JSON, and JSON documents: a list, null, objects whose "patterns" is a
\* number, is missing, or is a list of candidates.
CollaboratorErrors == {"APIError", "IndexError"}

GoodCandidate(p) ==
    Candidate(JInt(3), p, KeyLevelsOf(JInt(95000), TwoTargets))

Documents ==
    {JList(<<>>),
     JNull,
     JObj([patterns |-> JInt(5)]),
     JObj([error |-> JStr("overloaded")]),
     JObj([patterns |-> JList(<<>>)]),
     JObj([patterns |-> JList(<<GoodCandidate(JFloat(1, 2))>>)]),
     JObj([patterns |-> JList(<<JNull, GoodCandidate(JFloat(1, 4)),
                                GoodCandidate(JFloat(1, 2))>>)]),
     JObj([patterns |-> JList(<<GoodCandidate(JFloat(1, 2)),
                                Candidate(JInfinity, JFloat(1, 2),
                                          KeyLevelsOf(JInt(95000), TwoTargets))>>)])}

Contents ==
    {JNull, JStr(""), JStr("Sorry, I cannot")} \cup {JsonText(d) : d \in Documents}

GenerateInit ==
    /\ SyncIdle
    /\ client \in BOOLEAN
    /\ technical_analysis \in
           {ta \in AnalysisResults :
               /\ ta.indicators = [col \in {"current_price", "volume"} |-> Fin(70, 1)]
               /\ "resistance" \in DOMAIN ta.support_resistance
               /\ ta.support_resistance.resistance # <<>>
               /\ Len(ta.patterns) # 1}
    /\ current_price = Fin(70, 1)
    /\ timeframes \in {JNull, JList(<<"1month", "1week">>)}
    /\ num_patterns = 10
    /\ news_context \in {JNull, JStr("ETF inflows rise")}
    /\ gpc = "call"
    /\ attempt = 1
    /\ prompt = <<>>
    /\ builds = 0
    /\ glog = <<>>
    /\ requests = <<>>
    /\ content = Unbound
    /\ parsed = <<>>
    /\ outcome = None
    /\ AnalyzeIdle
    /\ latest = [col \in {"close"} |-> Fin(112, 1)]
    /\ tpc = "idle"
    /\ strength_factors = <<>>
    /\ net_score = None
    /\ trend = ""
    /\ strength = None
    /\ response = JNull
    /\ items = <<>>
    /\ idx = 1
    /\ patterns = <<>>
    /\ pc = "idle"
    /\ exc = ""
    /\ now = 0
    /\ results = <<>>

GenerateNext ==
    \/ StartAttempt
    \/ \E c \in Contents : CallCollaborator(c, "")
    \/ \E e \in CollaboratorErrors : CallCollaborator(JNull, e)
    \/ EnterParse
    \/ KeepCandidate
    \/ DiscardCandidate
    \/ AbortParse
    \/ SortAndReturn
    \/ ParseReturned
    \/ ParseRaised

SpecGenerate == GenerateInit /\ [][GenerateNext]_vars

---------------------------------------------------------------------------
\* analyze called twice on the same window, with a call of _parse_patterns
\* and a call of _build_prompt made at any time meanwhile

\* the TechnicalAnalysisResult analyze returns
AnalysisResult ==
    [trend |-> trend, strength |-> strength, patterns |-> detected,
     indicators |-> indicators, support_resistance |-> sr_levels,
     summary |-> summary]

\* a slip of AnalyzeAgain: the pattern list kept on the analyzer, so that
\* the second invocation appends to the list of the first
AnalyzeAgainKeepingPatterns ==
    /\ apc = "returned"
    /\ first_result = None
    /\ first_result' = AnalysisResult
    /\ tpc' = "start"
    /\ strength_factors' = <<>>
    /\ net_score' = None
    /\ trend' = ""
    /\ strength' = None
    /\ di' = 1
    /\ invoked' = <<>>
    /\ apc' = "detect"
    /\ indicators' = None
    /\ sr_levels' = None
    /\ summary' = <<>>
    /\ UNCHANGED <<df, slopes, pattern_detectors, detected, logged, latest>>
    /\ UNCHANGED <<pvars, gvars, svars>>

\* the caller keeps the result and calls analyze(df) again: the locals of
\* the new invocation are fresh, the analyzer and the window are the same
AnalyzeAgain ==
    /\ apc = "returned"
    /\ first_result = None
    /\ first_result' = AnalysisResult
    /\ tpc' = "start"
    /\ strength_factors' = <<>>
    /\ net_score' = None
    /\ trend' = ""
    /\ strength' = None
    /\ di' = 1
    /\ detected' = <<>>
    /\ invoked' = <<>>
    /\ apc' = "detect"
    /\ indicators' = None
    /\ sr_levels' = None
    /\ summary' = <<>>
    /\ UNCHANGED <<df, slopes, pattern_detectors, logged, latest>>
    /\ UNCHANGED <<pvars, gvars, svars>>

TwiceWindows ==
    {PeakWindow(50, <<Fin(100, 1), Fin(99, 1)>>, <<Fin(60, 1), Fin(50, 1)>>,
                <<Fin(90, 1), Fin(60, 1)>>),
     RampWindow(30, -10, 1),
     RampWindow(30, 0, 0),
     SpikeWindow(3, <<Fin(100, 1), Fin(85, 1), Fin(95, 1)>>)}

TwiceResponses ==
    {JObj([patterns |-> JList(<<GoodCandidate(JFloat(1, 4)), JNull,
                                GoodCandidate(JFloat(1, 2))>>)]),
     JObj([patterns |-> JList(<<Candidate(JInfinity, JFloat(1, 2),
                                          KeyLevelsOf(JInt(95000), TwoTargets))>>)])}

TwiceInit ==
    /\ SyncIdle
    /\ df \in TwiceWindows
    /\ slopes \in SlopesOf(df)
    /\ \E ind \in IndicatorSets : latest = LatestRow(df, ind)
    /\ pattern_detectors = RegisteredDetectors
    /\ di = 1
    /\ detected = <<>>
    /\ invoked = <<>>
    /\ logged = <<>>
    /\ apc = "detect"
    /\ indicators = None
    /\ sr_levels = None
    /\ summary = <<>>
    /\ first_result = None
    /\ tpc = "start"
    /\ strength_factors = <<>>
    /\ net_score = None
    /\ trend = ""
    /\ strength = None
    /\ response \in TwiceResponses
    /\ items = <<>>
    /\ idx = 1
    /\ patterns = <<>>
    /\ pc = "call"
    /\ exc = ""
    /\ now = 0
    /\ results = <<>>
    /\ client = TRUE
    /\ technical_analysis \in
           {ta \in AnalysisResults :
               /\ ta.indicators = [col \in {"current_price", "volume"} |-> Fin(70, 1)]
               /\ "resistance" \notin DOMAIN ta.support_resistance
               /\ ta.patterns = <<DoubleTop(Fin(100, 1)), SymmetricalTriangle>>}
    /\ current_price = Fin(70, 1)
    /\ timeframes = JList(<<"1week">>)
    /\ num_patterns = 10
    /\ news_context = JStr("ETF inflows rise")
    /\ gpc = "build"
    /\ attempt = 1
    /\ prompt = <<>>
    /\ builds = 0
    /\ glog = <<>>
    /\ requests = <<>>
    /\ content = Unbound
    /\ parsed = <<>>
    /\ outcome = None

TwiceNext ==
    \/ AnalyzeNext
    \/ AnalyzeAgain
    \/ ParseNext
    \/ BuildPromptCall

SpecTwice == TwiceInit /\ [][TwiceNext]_vars

---------------------------------------------------------------------------
\* Properties of _parse_patterns

\* the raw candidate a returned pattern was built from
RawOf(p) == items[p.src]

\* the try block of _parse_patterns goes through for raw candidate i
Coerces(i) == BuildPattern(items[i], i, 0).ok

\* the positions of the raw candidates that are in the returned list
Kept == {patterns[j].src : j \in 1..Len(patterns)}

\* two floats are the same number
SameNumber(a, b) == a.c # "nan" /\ b.c # "nan" /\ ~FLt(a, b) /\ ~FLt(b, a)

\* C1: the returned list is ordered by probability descending (no element
\* has a smaller probability than one after it), and elements of equal
\* probability keep the order they had in the raw list.
C1_SortedDescendingStable ==
    pc = "returned" =>
        \A i, j \in 1..Len(patterns) :
            i < j =>
                /\ ~FLt(patterns[i].probability, patterns[j].probability)
                /\ SameNumber(patterns[i].probability, patterns[j].probability)
                       => patterns[i].src < patterns[j].src

\* C2: the i-th element of the returned list has rank i, whatever rank the
\* raw candidate carried.
C2_DenseRanks ==
    pc = "returned" =>
        \A i \in 1..Len(patterns) : patterns[i].rank = PyIntOf(i)

\* three candidates are returned, and at least one of them came with a rank
\* other than the one it is given
C2_Witness ==
    /\ pc = "returned"
    /\ Len(patterns) = 3
    /\ \E i \in 1..3 : PyInt(RawOf(patterns[i]).f.rank).val # PyIntOf(i)

\* C3: no call of _parse_patterns ends in an exception, and a call that
\* returns has kept exactly the candidates whose every field coerces.
C3_NeverAborts ==
    /\ pc # "raised"
    /\ pc = "returned" => Kept = {i \in 1..Len(items) : Coerces(i)}

\* C4: two calls on the same response return the same thing (every field of
\* every element, created_at included).
C4_SameOutputTwice ==
    Len(results) = 2 => results[1] = results[2]

\* C5: every returned pattern has a positive integer rank and a probability
\* in (0, 1].
C5_RankAndProbabilityRange ==
    pc = "returned" =>
        \A i \in 1..Len(patterns) :
            /\ patterns[i].rank.c = "fin" /\ patterns[i].rank.n > 0
            /\ FLt(Fin(0, 1), patterns[i].probability)
            /\ ~FLt(Fin(1, 1), patterns[i].probability)
            /\ patterns[i].probability.c = "fin"

\* the take_profit entry of raw candidate i, when the candidate is an object
\* with a key_levels object holding a take_profit list
HasTakeProfitList(i) ==
    /\ items[i].k = "obj"
    /\ "key_levels" \in DOMAIN items[i].f
    /\ items[i].f.key_levels.k = "obj"
    /\ "take_profit" \in DOMAIN items[i].f.key_levels.f
    /\ items[i].f.key_levels.f.take_profit.k = "list"

TakeProfitOf(i) == items[i].f.key_levels.f.take_profit.e

\* C6: in a returned list, (a) a candidate with an empty take_profit list
\* whose other fields coerce is there, with an empty take_profit; (b) a
\* candidate with a take_profit element that float() refuses is not there;
\* (c) the take_profit of a returned pattern is float() of the elements of
\* the raw list, one for one and in the same order.
C6_TakeProfit ==
    pc = "returned" =>
        /\ \A i \in 1..Len(items) :
               (HasTakeProfitList(i) /\ TakeProfitOf(i) = <<>> /\ Coerces(i))
                   => \E j \in 1..Len(patterns) :
                          /\ patterns[j].src = i
                          /\ patterns[j].key_levels.take_profit = <<>>
        /\ \A i \in 1..Len(items) :
               (HasTakeProfitList(i)
                    /\ \E k \in 1..Len(TakeProfitOf(i)) : ~PyFloat(TakeProfitOf(i)[k]).ok)
                   => i \notin Kept
        /\ \A j \in 1..Len(patterns) :
               LET tp == patterns[j].key_levels.take_profit
                   raw == TakeProfitOf(patterns[j].src)
               IN  /\ HasTakeProfitList(patterns[j].src)
                   /\ Len(tp) = Len(raw)
                   /\ \A k \in 1..Len(raw) : tp[k] = PyFloat(raw[k]).val

\* a returned list built from three candidates: one with an empty
\* take_profit (kept), one with two targets (kept), one with a target that
\* is not a number (left out)
C6_Witness ==
    /\ pc = "returned"
    /\ Len(items) = 3
    /\ \E a, b, c \in 1..3 :
         /\ HasTakeProfitList(a) /\ TakeProfitOf(a) = <<>> /\ a \in Kept
         /\ HasTakeProfitList(b) /\ Len(TakeProfitOf(b)) = 2 /\ b \in Kept
         /\ HasTakeProfitList(c)
         /\ \E k \in 1..Len(TakeProfitOf(c)) : ~PyFloat(TakeProfitOf(c)[k]).ok
         /\ c \notin Kept

---------------------------------------------------------------------------
\* Properties of _analyze_trend

FLe(a, b) == a.c = "fin" /\ b.c = "fin" /\ ~FLt(b, a)

\* s is x rounded to one decimal: a number of tenths no further than 0.05
\* from x
IsRoundedToTenth(s, x) ==
    /\ s.c = "fin"
    /\ 10 % s.d = 0
    /\ FLe(FAbs(FSub(s, x)), Fin(1, 20))

Smaller(a, b) == IF FLt(a, b) THEN a ELSE b

\* C7: net > 20 gives bullish with strength min(50 + net/2, 100); net < -20
\* gives bearish with strength min(50 + |net|/2, 100); -20 <= net <= 20
\* gives neutral with strength 50 - |net|; the strength is rounded to one
\* decimal.
C7_TrendFromNetScore ==
    (tpc = "done" /\ net_score # None) =>
        LET half == FDiv(FAbs(net_score), Fin(2, 1))
        IN  /\ FLt(Fin(20, 1), net_score) =>
                /\ trend = "bullish"
                /\ IsRoundedToTenth(strength, Smaller(FAdd(Fin(50, 1), half), Fin(100, 1)))
            /\ FLt(net_score, Fin(-20, 1)) =>
                /\ trend = "bearish"
                /\ IsRoundedToTenth(strength, Smaller(FAdd(Fin(50, 1), half), Fin(100, 1)))
            /\ (FLe(Fin(-20, 1), net_score) /\ FLe(net_score, Fin(20, 1))) =>
                /\ trend = "neutral"
                /\ IsRoundedToTenth(strength, FSub(Fin(50, 1), FAbs(net_score)))

\* a net score above 20 whose strength is not a whole number of tenths
\* before rounding, so that the rounding has acted
C7_Witness ==
    /\ tpc = "done"
    /\ net_score # None
    /\ FLt(Fin(20, 1), net_score)
    /\ trend = "bullish"
    /\ strength # FAdd(Fin(50, 1), FDiv(net_score, Fin(2, 1)))
    /\ FLt(strength, Fin(100, 1))

\* the weights of the factors on one side, added up
RECURSIVE SideWeight(_, _, _)
SideWeight(fs, i, side) ==
    IF i = 0
    THEN Fin(0, 1)
    ELSE LET f == fs[i]
             on == \/ side = "all"
                   \/ side = "bullish" /\ f.d.n > 0
                   \/ side = "bearish" /\ f.d.n < 0
         IN  IF on THEN FAdd(f.w, SideWeight(fs, i - 1, side))
             ELSE SideWeight(fs, i - 1, side)

FactorsNamed(name) ==
    {i \in 1..Len(strength_factors) : strength_factors[i].name = name}

\* C8: net score = (weights of the positive-direction signals - weights of
\* the negative-direction signals) / (all weights) * 100; an oscillator
\* signal of direction +-0.5 counts with its weight 10; a directional-
\* strength index <= 25 gives a direction-0 signal of weight 5, in the
\* denominator only; an index > 25 gives a bullish signal of weight
\* min(value/50*20, 20).
C8_NetScoreFormula ==
    (tpc = "done" /\ net_score # None) =>
        LET fs == strength_factors
            n == Len(fs)
            bull == SideWeight(fs, n, "bullish")
            bear == SideWeight(fs, n, "bearish")
            all == SideWeight(fs, n, "all")
        IN  /\ FMul(net_score, all) = FMul(FSub(bull, bear), Fin(100, 1))
            /\ \A i \in FactorsNamed("rsi") :
                   fs[i].d \in {Fin(1, 2), Fin(-1, 2)} => fs[i].w = Fin(10, 1)
            /\ \A i \in FactorsNamed("adx") :
                   LET adx == latest["adx_14"]
                   IN  /\ FLe(adx, Fin(25, 1)) =>
                           fs[i].d = Fin(0, 1) /\ fs[i].w = Fin(5, 1)
                       /\ FLt(Fin(25, 1), adx) =>
                           /\ fs[i].d = Fin(1, 1)
                           /\ fs[i].w = Smaller(FDiv(FMul(adx, Fin(20, 1)), Fin(50, 1)),
                                                Fin(20, 1))
            /\ ("adx_14" \in Columns) = (FactorsNamed("adx") # {})

\* a window with a half-direction oscillator signal, a full-direction
\* signal against it and a direction-0 directional-strength signal
C8_Witness ==
    /\ tpc = "done"
    /\ net_score # None
    /\ \E i \in FactorsNamed("rsi") : strength_factors[i].d = Fin(1, 2)
    /\ \E i \in FactorsNamed("macd") : strength_factors[i].d = Fin(-1, 1)
    /\ \E i \in FactorsNamed("adx") : strength_factors[i].d = Fin(0, 1)

\* the indicator columns of the window
IndicatorColumns == Columns \ {"close"}

\* C9: a window with no usable indicator column (none present, or every one
\* present with a NaN latest value) gives neutral with strength 50.0.
C9_NoUsableColumnIsNeutral ==
    (tpc = "done" /\ \A col \in IndicatorColumns : latest[col] = NaN) =>
        trend = "neutral" /\ strength = Fin(50, 1)

\* the window of the worked example
BullishExample ==
    [close |-> Fin(112, 1), sma_20 |-> Fin(110, 1), sma_50 |-> Fin(100, 1),
     sma_200 |-> Fin(95, 1), rsi_14 |-> Fin(75, 1), macd |-> Fin(5, 1),
     macd_signal |-> Fin(2, 1), adx_14 |-> Fin(30, 1)]

\* C10: on the worked example each of the five signals is bullish, the net
\* score is 100, the trend is bullish and the strength is 100.
C10_BullishExample ==
    (tpc = "done" /\ latest = BullishExample) =>
        /\ Len(strength_factors) = 5
        /\ \A i \in 1..Len(strength_factors) : strength_factors[i].d = Fin(1, 1)
        /\ net_score = Fin(100, 1)
        /\ trend = "bullish"
        /\ strength = Fin(100, 1)

\* the classifier has run on the worked example
C10_Witness ==
    /\ tpc = "done"
    /\ latest = BullishExample
    /\ trend # ""

\* the window of the mirrored example
BearishExample ==
    [close |-> Fin(112, 1), sma_20 |-> Fin(90, 1), sma_50 |-> Fin(100, 1),
     sma_200 |-> Fin(120, 1), rsi_14 |-> Fin(25, 1), macd |-> Fin(1, 1),
     macd_signal |-> Fin(2, 1), adx_14 |-> Fin(30, 1)]

\* C11 as stated: on the mirrored bearish example (fast average below slow,
\* close below the long average, oscillator below 30, momentum below its
\* signal, directional-strength index 30) the trend is bearish and the
\* strength is 100.
C11_BearishExampleClamped ==
    (tpc = "done" /\ latest = BearishExample) =>
        trend = "bearish" /\ strength = Fin(100, 1)

\* C11 amended: on the mirrored bearish example four signals are bearish
\* (weights 25, 20, 15, 20) and the directional-strength signal is still
\* bullish with weight 12, so the net score is (12 - 80) / 92 * 100, the
\* trend is bearish and the strength is 87.0.
C11_BearishExample ==
    (tpc = "done" /\ latest = BearishExample) =>
        /\ Len(strength_factors) = 5
        /\ \A i \in 1..4 : strength_factors[i].d = Fin(-1, 1)
        /\ strength_factors[5] = Factor("adx", Fin(1, 1), Fin(12, 1))
        /\ net_score = Fin(-6800, 92)
        /\ trend = "bearish"
        /\ strength = Fin(87, 1)

\* the classifier has run on the mirrored example
C11_Witness ==
    /\ tpc = "done"
    /\ latest = BearishExample
    /\ trend = "bearish"

\* C12 as stated: the trend is one of the three labels, the strength lies in
\* [0,100]; neutral has strength in [30,50], bullish and bearish have
\* strength in (60,100].
C12_StrengthBands ==
    tpc = "done" =>
        /\ trend \in {"bullish", "bearish", "neutral"}
        /\ FLe(Fin(0, 1), strength) /\ FLe(strength, Fin(100, 1))
        /\ trend = "neutral" => FLe(Fin(30, 1), strength) /\ FLe(strength, Fin(50, 1))
        /\ trend # "neutral" => FLt(Fin(60, 1), strength) /\ FLe(strength, Fin(100, 1))

\* C12 amended: the trend is one of the three labels, the strength lies in
\* [0,100]; neutral has strength in [30,50], bullish and bearish have
\* strength in [60,100] (60.0 is reached by rounding), so no result has
\* strength strictly between 50 and 60.
C12_StrengthBandsRounded ==
    tpc = "done" =>
        /\ trend \in {"bullish", "bearish", "neutral"}
        /\ FLe(Fin(0, 1), strength) /\ FLe(strength, Fin(100, 1))
        /\ trend = "neutral" => FLe(Fin(30, 1), strength) /\ FLe(strength, Fin(50, 1))
        /\ trend # "neutral" => FLe(Fin(60, 1), strength) /\ FLe(strength, Fin(100, 1))

\* a net score just above 20 whose strength rounds down to 60.0
C12_Witness ==
    /\ tpc = "done"
    /\ trend = "bullish"
    /\ strength = Fin(60, 1)
    /\ FLt(Fin(20, 1), net_score)

\* the columns each signal needs
SignalColumns ==
    [sma_cross |-> {"sma_20", "sma_50"}, above_sma200 |-> {"sma_200"},
     rsi |-> {"rsi_14"}, macd |-> {"macd", "macd_signal"}, adx |-> {"adx_14"}]

PresentSignals == {s \in DOMAIN SignalColumns : SignalColumns[s] \subseteq Columns}

\* the window without the columns of the signals that miss a column
WithoutOrphans ==
    [col \in {"close"} \cup UNION {SignalColumns[s] : s \in PresentSignals} |->
        latest[col]]

\* C13: for every subset of the indicator columns the classifier returns a
\* result; a signal contributes one factor when all its columns are present
\* and none otherwise, and the result is the one computed from the window
\* reduced to the columns of the present signals.
C13_MissingColumnsOmitted ==
    tpc = "done" =>
        /\ trend \in {"bullish", "bearish", "neutral"}
        /\ \A s \in DOMAIN SignalColumns :
               Cardinality(FactorsNamed(s)) = IF s \in PresentSignals THEN 1 ELSE 0
        /\ Len(strength_factors) = Cardinality(PresentSignals)
        /\ LET r == TrendResult(StrengthFactors(WithoutOrphans))
           IN  /\ net_score = r.net
               /\ trend = r.trend
               /\ strength = r.strength

\* a window with half of the average pair and half of the momentum pair,
\* and an oscillator signal that does count
C13_Witness ==
    /\ tpc = "done"
    /\ "sma_20" \in Columns /\ "sma_50" \notin Columns
    /\ "macd" \in Columns /\ "macd_signal" \notin Columns
    /\ FactorsNamed("rsi") # {}
    /\ FactorsNamed("macd") = {}

---------------------------------------------------------------------------
\* Properties of _detect_patterns and the detectors

\* the outcomes of the stand-ins, in registration order
OutcomeAt(i) == pattern_detectors[i].out

\* the positions worth an entry of the result: no exception, not None
Yielding == {i \in 1..Len(pattern_detectors) : OutcomeAt(i).ok /\ OutcomeAt(i).val # JNull}

Raising == {i \in 1..Len(pattern_detectors) : ~OutcomeAt(i).ok}

\* s holds vals[i] for the positions i, in increasing order of i
InOrder(s, positions, vals) ==
    /\ Len(s) = Cardinality(positions)
    /\ \A k \in 1..Len(s) :
          \E i \in positions :
              /\ Cardinality({j \in positions : j < i}) = k - 1
              /\ s[k] = vals[i]

PatternAt == [i \in 1..Len(pattern_detectors) |-> OutcomeAt(i).val]
ErrorAt == [i \in 1..Len(pattern_detectors) |-> OutcomeAt(i).exc]

\* C14: whatever each detector does (a pattern, None, an exception),
\* _detect_patterns calls the detectors once each in registration order,
\* always has a next step until it returns, and returns the non-null
\* results of the detectors that did not raise, in registration order; an
\* exception is logged and the later detectors still run.
C14_DetectorsIsolated ==
    /\ apc \in {"detect", "detected"} =>
          invoked = [i \in 1..(di - 1) |-> i]
    /\ apc = "detect" => ENABLED DetectNext
    /\ apc = "detected" =>
          /\ Len(invoked) = Len(pattern_detectors)
          /\ InOrder(detected, Yielding, PatternAt)
          /\ InOrder(logged, Raising, ErrorAt)

\* a returned call in which a detector raised, a later one yielded a
\* pattern and another returned None
C14_Witness ==
    /\ apc = "detected"
    /\ \E i \in Raising : \E j \in Yielding : i < j
    /\ \E i \in 1..Len(pattern_detectors) : OutcomeAt(i) = Ok(JNull)
    /\ Len(detected) >= 2

\* the trailing rows a detector or the level calculator looks at
Trailing(k) ==
    [i \in 1..(IF Len(df) < k THEN Len(df) ELSE k) |->
        df[Len(df) - (IF Len(df) < k THEN Len(df) ELSE k) + i]]

\* x is the greatest (the least) value of column col over the rows
IsGreatest(x, rows, col) ==
    /\ \E i \in DOMAIN rows : rows[i][col] = x
    /\ \A i \in DOMAIN rows : FLe(rows[i][col], x)

IsLeast(x, rows, col) ==
    /\ \E i \in DOMAIN rows : rows[i][col] = x
    /\ \A i \in DOMAIN rows : FLe(x, rows[i][col])

\* the first row holding value x in column col
FirstHolding(x, rows, col) ==
    CHOOSE i \in DOMAIN rows :
        rows[i][col] = x /\ \A j \in DOMAIN rows : rows[j][col] = x => i <= j

NamedIn(names) == {i \in 1..Len(detected) : detected[i].name \in names}

\* the detection loop is over
Detected == apc \in {"detected", "summarized", "levels", "returned"}

\* C15: in a window of at least 50 candles whose last 50 have the maximum
\* high 100, with a candle other than the first one holding it whose high is
\* >= 98 (98 included), exactly one pattern is named "Double Top": bearish,
\* confidence 0.6, price level 100.
C15_DoubleTopWithinTwoPercent ==
    (/\ Detected
     /\ Len(df) >= 50
     /\ IsGreatest(Fin(100, 1), Trailing(50), "high")
     /\ \E j \in DOMAIN Trailing(50) :
           /\ j # FirstHolding(Fin(100, 1), Trailing(50), "high")
           /\ FLe(Fin(98, 1), Trailing(50)[j].high))
    => /\ Cardinality(NamedIn({"Double Top"})) = 1
       /\ \A i \in NamedIn({"Double Top"}) :
             /\ detected[i].direction = "bearish"
             /\ detected[i].confidence = Fin(6, 10)
             /\ detected[i].price_level = Fin(100, 1)

\* C16: in a window of at least 50 candles, when a candle of the last 50
\* other than the first one holding the lowest low has a low within 2% of
\* it (low <= 1.02 * lowest), a pattern "Double Bottom" is emitted: bullish,
\* confidence 0.6, price level the lowest low.
C16_DoubleBottomWithinTwoPercent ==
    (/\ Detected
     /\ Len(df) >= 50)
    => \A m \in Range(Column(Trailing(50), "low")) :
          (/\ IsLeast(m, Trailing(50), "low")
           /\ \E j \in DOMAIN Trailing(50) :
                 /\ j # FirstHolding(m, Trailing(50), "low")
                 /\ FLe(Trailing(50)[j].low, FMul(m, Fin(102, 100))))
          => \E i \in NamedIn({"Double Bottom"}) :
                 /\ detected[i].direction = "bullish"
                 /\ detected[i].confidence = Fin(6, 10)
                 /\ detected[i].price_level = m

DoubleNames == {"Double Top", "Double Bottom"}

TriangleNames == {"Symmetrical Triangle", "Descending Triangle", "Ascending Triangle"}

\* C17: the pattern list of an analysis has at most two entries: at most
\* one of Double Top / Double Bottom, then at most one triangle, and nothing
\* else (the head-and-shoulders, channel and wedge detectors yield nothing).
C17_AtMostTwoPatterns ==
    /\ Len(detected) <= 2
    /\ Cardinality(NamedIn(DoubleNames)) <= 1
    /\ Cardinality(NamedIn(TriangleNames)) <= 1
    /\ NamedIn(DoubleNames) \cup NamedIn(TriangleNames) = 1..Len(detected)
    /\ \A i \in NamedIn(DoubleNames) : \A j \in NamedIn(TriangleNames) : i < j
    /\ Detected => Len(invoked) = 5

\* an analysis that found a double top and a triangle
C17_Witness ==
    /\ apc = "returned"
    /\ Len(detected) = 2
    /\ detected[1].name = "Double Top"
    /\ detected[2].name \in TriangleNames

StrictlyFalling(rows, col) ==
    \A i \in DOMAIN rows : i > 1 => FLt(rows[i][col], rows[i - 1][col])

StrictlyRising(rows, col) ==
    \A i \in DOMAIN rows : i > 1 => FLt(rows[i - 1][col], rows[i][col])

\* C18: when the highs of the last 30 candles are strictly decreasing and
\* the lows strictly increasing, exactly one triangle is emitted, the
\* "Symmetrical Triangle", neutral with confidence 0.5, whatever the ratio
\* of the two slopes.
C18_SymmetricalTriangle ==
    (/\ Detected
     /\ Len(df) >= 30
     /\ StrictlyFalling(Trailing(30), "high")
     /\ StrictlyRising(Trailing(30), "low"))
    => /\ Cardinality(NamedIn(TriangleNames)) = 1
       /\ \A i \in NamedIn(TriangleNames) :
             /\ detected[i].name = "Symmetrical Triangle"
             /\ detected[i].direction = "neutral"
             /\ detected[i].confidence = Fin(5, 10)

\* converging lines of which one is more than three times steeper than the
\* other, and a window where they converge along a curve
C18_Witness ==
    /\ Detected
    /\ Len(df) = 30
    /\ StrictlyFalling(df, "high")
    /\ StrictlyRising(df, "low")
    /\ FLt(FMul(FSub(df[2].low, df[1].low), Fin(3, 1)), FSub(df[1].high, df[2].high))
    /\ NamedIn({"Symmetrical Triangle"}) # {}

\* C19: on every window of at least one candle no step of analyze raises;
\* fewer than 50 candles give no double top or bottom, fewer than 30 no
\* triangle, and a returned analysis has its trend, indicators, summary and
\* the levels computed from the rows there are.
C19_ShortWindows ==
    /\ Len(df) >= 1 => tpc # "raised"
    /\ Len(df) < 50 => NamedIn(DoubleNames) = {}
    /\ Len(df) < 30 => NamedIn(TriangleNames) = {}
    /\ apc = "returned" =>
          /\ trend \in {"bullish", "bearish", "neutral"}
          /\ "current_price" \in DOMAIN indicators
          /\ summary # <<>>
          /\ Len(df) <= 50 =>
                /\ IsGreatest(sr_levels.high, df, "high")
                /\ IsLeast(sr_levels.low, df, "low")
                /\ Len(sr_levels.resistance) = 3 + (IF Len(df) < 3 THEN Len(df) ELSE 3)
                /\ Len(sr_levels.support) = 3 + (IF Len(df) < 3 THEN Len(df) ELSE 3)

\* a returned analysis of a single candle, or of 49 candles with a repeated
\* high
C19_Witness ==
    /\ apc = "returned"
    /\ \/ Len(df) = 1
       \/ /\ Len(df) = 49
          /\ \E i, j \in DOMAIN df : i # j /\ df[i].high = df[j].high

\* C20: with H the highest high, L the lowest low and C the last close of
\* the last 50 candles: pivot = (H+L+C)/3, R1 = 2*pivot - L,
\* R2 = pivot + (H-L), R3 = H + 2*(pivot-L), S1 = 2*pivot - H,
\* S2 = pivot - (H-L), S3 = L - 2*(H-pivot); the resistance list holds R1,
\* R2, R3 and the support list S1, S2, S3; older candles play no part.
C20_PivotLevels ==
    apc \in {"levels", "returned"} =>
        \A H \in Range(Column(Trailing(50), "high")),
           L \in Range(Column(Trailing(50), "low")) :
            (IsGreatest(H, Trailing(50), "high") /\ IsLeast(L, Trailing(50), "low")) =>
                LET C == df[Len(df)].close
                    two == Fin(2, 1)
                    pivot == sr_levels.pivot
                IN  /\ FMul(pivot, Fin(3, 1)) = FAdd(FAdd(H, L), C)
                    /\ sr_levels.r1 = FSub(FMul(two, pivot), L)
                    /\ sr_levels.r2 = FAdd(pivot, FSub(H, L))
                    /\ sr_levels.r3 = FAdd(H, FMul(two, FSub(pivot, L)))
                    /\ sr_levels.s1 = FSub(FMul(two, pivot), H)
                    /\ sr_levels.s2 = FSub(pivot, FSub(H, L))
                    /\ sr_levels.s3 = FSub(L, FMul(two, FSub(H, pivot)))
                    /\ {sr_levels.r1, sr_levels.r2, sr_levels.r3}
                          \subseteq Range(sr_levels.resistance)
                    /\ {sr_levels.s1, sr_levels.s2, sr_levels.s3}
                          \subseteq Range(sr_levels.support)

\* levels computed on 51 candles of which the oldest holds the highest high
\* and the lowest low of the frame
C20_Witness ==
    /\ apc = "returned"
    /\ Len(df) = 51
    /\ \A i \in 2..51 : FLt(df[i].high, df[1].high) /\ FLt(df[1].low, df[i].low)
    /\ sr_levels # None

\* how many entries of the list s equal v
Count(s, v) == Cardinality({i \in DOMAIN s : s[i] = v})

\* how many of the k greatest (least) entries of the list s equal v, equal
\* entries counted one by one
AmongGreatest(s, k, v) ==
    LET above == Cardinality({i \in DOMAIN s : FLt(v, s[i])})
        room == IF above >= k THEN 0 ELSE k - above
    IN  IF Count(s, v) < room THEN Count(s, v) ELSE room

AmongLeast(s, k, v) ==
    LET below == Cardinality({i \in DOMAIN s : FLt(s[i], v)})
        room == IF below >= k THEN 0 ELSE k - below
    IN  IF Count(s, v) < room THEN Count(s, v) ELSE room

\* C21: for a window of at least 3 candles, the resistance list is the
\* multiset {R1, R2, R3} plus the 3 highest highs of the last 50 candles,
\* sorted descending; the support list is {S1, S2, S3} plus the 3 lowest
\* lows, sorted ascending; each has exactly 6 entries, equal values kept as
\* duplicates.
C21_LevelLists ==
    (apc \in {"levels", "returned"} /\ Len(df) >= 3) =>
        LET res == sr_levels.resistance
            sup == sr_levels.support
            highs == Column(Trailing(50), "high")
            lows == Column(Trailing(50), "low")
            rs == <<sr_levels.r1, sr_levels.r2, sr_levels.r3>>
            ss == <<sr_levels.s1, sr_levels.s2, sr_levels.s3>>
        IN  /\ Len(res) = 6 /\ Len(sup) = 6
            /\ \A i \in 1..5 : FLe(res[i + 1], res[i]) /\ FLe(sup[i], sup[i + 1])
            /\ \A v \in Range(res) \cup Range(rs) \cup Range(highs) :
                   Count(res, v) = Count(rs, v) + AmongGreatest(highs, 3, v)
            /\ \A v \in Range(sup) \cup Range(ss) \cup Range(lows) :
                   Count(sup, v) = Count(ss, v) + AmongLeast(lows, 3, v)

\* levels of a window whose 3 highest highs hold the same value twice, and
\* whose 3 lowest lows do too
C21_Witness ==
    /\ apc = "returned"
    /\ Len(df) >= 3
    /\ \E v \in Range(sr_levels.resistance) : Count(sr_levels.resistance, v) >= 2
    /\ \E v \in Range(sr_levels.support) : Count(sr_levels.support, v) >= 2

---------------------------------------------------------------------------
\* Properties of _build_prompt

\* the positions of the prompt's lines that are equal to line l
LinesEqual(l) == {i \in DOMAIN prompt : prompt[i] = l}

\* the positions of the lines that open with text t and have n pieces
LinesOpening(t, n) ==
    {i \in DOMAIN prompt : Len(prompt[i]) = n /\ prompt[i][1] = Text(t)}

\* news_context holds a text that is not empty
HasContext == news_context.k = "str" /\ news_context.s # ""

\* C22: the request states the count N as the required number of scenarios
\* (fewer than N not allowed), lists the horizons in the given order, lists
\* every indicator entry and the support and resistance lists, has the
\* detected-patterns section, one line per pattern in list order, exactly
\* when the pattern list is not empty, and has the context section exactly
\* when the context text is not empty.
C22_PromptContents ==
    gpc = "built" =>
        LET ta == technical_analysis
            ps == ta.patterns
            sr == ta.support_resistance
        IN  /\ \E i \in LinesOpening("- generate **exactly ", 5) :
                   /\ prompt[i][2] = ShownInt(num_patterns)
                   /\ prompt[i][3].v = "** different price scenarios (fewer than "
                   /\ prompt[i][4] = ShownInt(num_patterns)
                   /\ prompt[i][5].v = " is not allowed)"
            /\ \E i \in LinesOpening("- horizons: ", 2) :
                   prompt[i][2] = Joined(timeframes.e)
            /\ \A key \in DOMAIN ta.indicators :
                   \E i \in LinesOpening("- ", 4) :
                       /\ prompt[i][2] = Text(key)
                       /\ prompt[i][4] = Shown(ta.indicators[key])
            /\ \E i \in LinesOpening("- resistance: ", 2) :
                   prompt[i][2] = ShownList(IF "resistance" \in DOMAIN sr
                                            THEN sr.resistance ELSE <<>>)
            /\ \E i \in LinesOpening("- support: ", 2) :
                   prompt[i][2] = ShownList(IF "support" \in DOMAIN sr
                                            THEN sr.support ELSE <<>>)
            /\ (LinesEqual(PatternHeading) # {}) = (ps # <<>>)
            /\ \A h \in LinesEqual(PatternHeading) :
                   /\ h + Len(ps) <= Len(prompt)
                   /\ \A j \in 1..Len(ps) :
                          /\ Len(prompt[h + j]) = 4
                          /\ prompt[h + j][2] = Text(ps[j].name)
                   /\ Len(prompt[h + Len(ps) + 1]) # 4
            /\ (LinesEqual(ContextHeading) # {}) = HasContext
            /\ \A h \in LinesEqual(ContextHeading) :
                   prompt[h + 1] = <<Text(news_context.s)>>

\* a request built for two patterns, three indicator entries and a context
C22_Witness ==
    /\ gpc = "built"
    /\ Len(technical_analysis.patterns) = 2
    /\ technical_analysis.patterns[1] # technical_analysis.patterns[2]
    /\ Cardinality(DOMAIN technical_analysis.indicators) >= 3
    /\ HasContext
    /\ Len(timeframes.e) = 2

---------------------------------------------------------------------------
\* Properties of generate_predictions

\* the attempt that is running, or that ran last, received this content
Received == content # Unbound

\* the content received is None, the empty text, or a text that is not JSON
Unusable == Received /\ content.k # "json"

\* C23: on empty content or content that is not valid JSON the call returns
\* the empty list, without raising and without a further attempt;
\* _parse_patterns is invoked only on what non-empty content was parsed
\* to; without a client the call returns the empty list, no request built
\* and the collaborator not contacted.
C23_NoContentIsNoPrediction ==
    /\ [](Unusable => gpc = "returned" /\ outcome = Ok(<<>>))
    /\ [][gpc # "returned"]_vars
    /\ [][parsed' # parsed =>
             /\ content'.k = "json"
             /\ parsed' = Append(parsed, content'.doc)
             /\ response' = content'.doc]_vars
    /\ [](pc # "idle" => Received /\ content.k = "json" /\ response = content.doc)
    /\ [](~client => /\ builds = 0 /\ requests = <<>> /\ parsed = <<>>
                     /\ gpc \in {"call", "returned"}
                     /\ gpc = "returned" => outcome = Ok(<<>>))

\* the second attempt received a text that is not JSON, and the call has
\* returned
C23_Witness ==
    /\ gpc = "returned"
    /\ attempt = 2
    /\ Received
    /\ content.k = "str"
    /\ content.s # ""

\* C24: whatever JSON value the content is (a top-level list, a "patterns"
\* entry that is not a list of objects, ...), the attempt that received it
\* returns a list: the call does not raise to its caller and the
\* collaborator is not invoked again because of it.
C24_ValidationFailureIsLocal ==
    [][(Received /\ content.k = "json") => gpc' \notin {"call", "raised"}]_vars

\* the messages of line 179 logged so far
Failures == {i \in DOMAIN glog : glog[i].msg = "failed"}

\* C28: the collaborator is called at most 3 times; a further attempt
\* happens only after the attempt before raised an error other than a JSON
\* decode error; each attempt builds the request again and validates only
\* the response it received; the first attempt that returns a list ends
\* the invocation; and when the third attempt raises too, the failure goes
\* to the caller, not an empty list.
C28_BoundedRetry ==
    /\ [](Len(requests) <= 3 /\ attempt \in 1..3)
    /\ [][attempt' # attempt =>
             /\ attempt' = attempt + 1
             /\ gpc' = "call"
             /\ Len(glog') = Len(glog) + 1
             /\ glog'[Len(glog')].msg = "failed"
             /\ glog'[Len(glog')].detail # "JSONDecodeError"]_vars
    /\ [](Cardinality(Failures) \in {attempt - 1, attempt})
    /\ []((client /\ gpc # "call") => builds = attempt)
    /\ [](client => Len(requests) \in {builds - 1, builds})
    /\ [](\A i \in DOMAIN requests : requests[i] = prompt)
    /\ [](gpc = "parse" =>
             /\ Len(parsed) <= Len(requests)
             /\ parsed[Len(parsed)] = content.doc
             /\ response = content.doc)
    /\ [][gpc # "returned"]_vars
    /\ []((outcome # None /\ outcome.ok) => gpc = "returned")
    /\ [](Cardinality(Failures) = 3 <=> gpc = "raised")
    /\ [](gpc = "raised" => outcome # None /\ ~outcome.ok)

\* three attempts were made, the collaborator was called in each, and the
\* third one raised after _parse_patterns had been called on its response
C28_Witness ==
    /\ gpc = "raised"
    /\ Len(requests) = 3
    /\ Len(parsed) >= 1
    /\ pc = "raised"

---------------------------------------------------------------------------
\* Properties of the triangle detector and of the levels, continued

\* C26: with the slopes fitted to the highs and lows of the last 30
\* candles, at most one triangle is emitted, the first that matches of:
\* symmetrical (high slope < 0 < low slope); "Descending Triangle", bearish
\* 0.55, exactly when high slope < 0, low slope <= 0 and
\* |low slope| < 0.3 |high slope|; "Ascending Triangle", bullish 0.55,
\* exactly when low slope > 0, high slope >= 0 and
\* |high slope| < 0.3 |low slope|; and none in every other case.
C26_TriangleClassification ==
    (Detected /\ Len(df) >= 30) =>
        LET hs == slopes[1]
            ls == slopes[2]
            zero == Fin(0, 1)
            sym == FLt(hs, zero) /\ FLt(zero, ls)
            desc == /\ FLt(hs, zero) /\ FLe(ls, zero)
                    /\ FLt(FMul(FAbs(ls), Fin(10, 1)), FMul(FAbs(hs), Fin(3, 1)))
            asc == /\ FLt(zero, ls) /\ FLe(zero, hs)
                   /\ FLt(FMul(FAbs(hs), Fin(10, 1)), FMul(FAbs(ls), Fin(3, 1)))
        IN  /\ Cardinality(NamedIn(TriangleNames)) <= 1
            /\ (NamedIn({"Symmetrical Triangle"}) # {}) = sym
            /\ (NamedIn({"Descending Triangle"}) # {}) = desc
            /\ (NamedIn({"Ascending Triangle"}) # {}) = asc
            /\ \A i \in NamedIn({"Descending Triangle"}) :
                   detected[i].direction = "bearish" /\ detected[i].confidence = Fin(55, 100)
            /\ \A i \in NamedIn({"Ascending Triangle"}) :
                   detected[i].direction = "bullish" /\ detected[i].confidence = Fin(55, 100)

\* a descending triangle on highs that fall and lows that fall ten times
\* slower
C26_Witness ==
    /\ Detected
    /\ Len(df) >= 30
    /\ NamedIn({"Descending Triangle"}) # {}
    /\ FLt(slopes[2], Fin(0, 1))

\* every candle of the window has 0 <= low <= close <= high
WellFormed ==
    \A i \in DOMAIN df :
        /\ FLe(Fin(0, 1), df[i].low)
        /\ FLe(df[i].low, df[i].close)
        /\ FLe(df[i].close, df[i].high)

\* C27: for a window of candles with non-negative prices and
\* low <= close <= high, every level of the resistance list is at or above
\* the last close and every level of the support list at or below it.
C27_LevelsAroundPrice ==
    (apc \in {"levels", "returned"} /\ WellFormed) =>
        LET price == df[Len(df)].close
        IN  /\ \A i \in DOMAIN sr_levels.resistance :
                   FLe(price, sr_levels.resistance[i])
            /\ \A i \in DOMAIN sr_levels.support :
                   FLe(sr_levels.support[i], price)

\* C27, as the code has it: for such a window R1, R2, R3 and the highest
\* high are at or above the last close, and S1, S2, S3 and the lowest low at
\* or below it (all of them entries of the two lists); the second and third
\* highest highs and lowest lows are in the lists on whichever side of the
\* last close they lie.
C27_PivotLevelsAroundPrice ==
    (apc \in {"levels", "returned"} /\ WellFormed) =>
        LET price == df[Len(df)].close
            above == {sr_levels.r1, sr_levels.r2, sr_levels.r3, sr_levels.high}
            below == {sr_levels.s1, sr_levels.s2, sr_levels.s3, sr_levels.low}
        IN  /\ above \subseteq Range(sr_levels.resistance)
            /\ below \subseteq Range(sr_levels.support)
            /\ \A l \in above : FLe(price, l)
            /\ \A l \in below : FLe(l, price)

\* the levels of a window whose last close is above its second highest high
C27_Witness ==
    /\ apc = "returned"
    /\ WellFormed
    /\ Len(df) >= 3
    /\ \E i \in DOMAIN sr_levels.resistance :
           FLt(sr_levels.resistance[i], df[Len(df)].close)

---------------------------------------------------------------------------
\* Frame and purity

---------------------------------------------------------------------------
\* scripts/sync_tweets_to_pinecone.py and TwitterClient.get_user_tweets
\*
\* The remote service holds the posts of the user; the post of id i is
\* timeline[i], so a larger id is a newer post.  Of a post the model keeps
\* what filter_tweets_by_hashtag reads: whether its text or its hashtags
\* carry one of the target tags.  The wall clock (last_sync_date) and the
\* monthly count of API calls are bookkeeping no branch of sync_tweets
\* reads, and are not represented; upsert_tweets_batch stores every post
\* it is given.

PageSize == 2       \* posts on a full page (100 in the code)
MaxTweets == 3      \* posts the user ever makes
MaxRuns == 3        \* calls of sync_tweets
MaxFaults == 2      \* calls of get_user_tweets that fail
MaxPagesAll == 100  \* max_pages of a fetch_all call

\* load_sync_state: the saved dict, or the default one
LoadSyncState == IF sync_file = <<>> THEN DefaultState ELSE sync_file[1]

\* The ids the service selects for get_users_tweets: newer than since_id
\* when one is given, and older than the post the pagination token was
\* issued after
Selected(since_id, pagination_token) ==
    {i \in 1..Len(timeline) :
        /\ (since_id = NoId \/ i > since_id)
        /\ (pagination_token = NoId \/ i < pagination_token)}

\* get_user_tweets when the service answers: the newest max_results of
\* the selected posts, newest first, with the token of the next page when
\* older selected posts remain; TweetFetchResult() when none is selected
FetchPage(since_id, pagination_token, max_results) ==
    LET sel == Selected(since_id, pagination_token)
        n == IF Cardinality(sel) < max_results THEN Cardinality(sel)
             ELSE max_results
    IN  IF sel = {} THEN EmptyResult
        ELSE LET hi == CHOOSE i \in sel : \A j \in sel : j <= i
                 lo == hi - n + 1
             IN  [tweets |-> [k \in 1..n |-> hi - k + 1],
                  next_token |-> IF Cardinality(sel) > n THEN lo ELSE NoId,
                  oldest_id |-> lo,
                  newest_id |-> hi,
                  token_invalid |-> FALSE]

\* How a call of get_user_tweets can end:
\*   "page"          the service answered
\*   "unknown_user"  get_user found no such user (line 139)
\*   "api_error"     a TweepyException whose text has neither
\*                   "pagination_token" nor "invalid" (line 218)
\*   "token_invalid" a TweepyException whose text has one of them
\*   "raise"         another exception, on each of the three attempts of
\*                   the retry decorator
FetchOutcomes == {"page", "unknown_user", "api_error", "token_invalid", "raise"}

\* get_user_tweets, for a call that does not raise
GetUserTweets(o, since_id, pagination_token, max_results) ==
    CASE o = "page" -> FetchPage(since_id, pagination_token, max_results)
      [] o = "token_invalid" -> [EmptyResult EXCEPT !.token_invalid = TRUE]
      [] OTHER -> EmptyResult

\* has_more of a TweetFetchResult
HasMore(r) == r.next_token # NoId

\* filter_tweets_by_hashtag: the posts of the list that carry a target tag
RECURSIVE FilterTweetsByHashtag(_)
FilterTweetsByHashtag(tweets) ==
    IF tweets = <<>> THEN <<>>
    ELSE LET rest == FilterTweetsByHashtag(Tail(tweets))
         IN  IF timeline[Head(tweets)] THEN <<Head(tweets)>> \o rest
             ELSE rest

\* The ids of a list of posts
IdsOf(tweets) == {tweets[k] : k \in DOMAIN tweets}

\* The answer came from the end of the user's history: a page without a
\* next token ("(last page)" in the log of get_user_tweets), or the answer
\* that the user has no post
IsLastPage(o, r) ==
    /\ o = "page"
    /\ ~HasMore(r)
    /\ (r.tweets = <<>> => timeline = <<>>)

\* Lines 272-276: the counters of the run are added to the state, and the
\* state is saved
UpdatedState(st, synced) ==
    [st EXCEPT !.total_synced_count = @ + synced]

\* Lines 150-169: the call begins; the clients are checked, the state is
\* loaded and the mode is chosen
StartSync(mt, fa) ==
    /\ spc \in {"idle", "returned", "raised"}
    /\ runs < MaxRuns
    /\ runs' = runs + 1
    /\ max_tweets' = mt
    /\ fetch_all' = fa
    /\ pages_fetched' = 0
    /\ total_api_calls_this_run' = 0
    /\ total_synced_this_run' = 0
    /\ fetched' = EmptyResult
    /\ IF ~configured
       THEN /\ spc' = "returned"
            /\ mode' = ""
            /\ state' = DefaultState
       ELSE /\ spc' = "fetch"
            /\ state' = LoadSyncState
            /\ mode' = IF LoadSyncState.all_historical_collected /\ ~fa
                       THEN "differential" ELSE "historical"
    /\ UNCHANGED <<timeline, configured, sync_file, pinecone, last_page_seen, faults>>
    /\ UNCHANGED <<pvars, tvars, avars, gvars>>

\* Lines 172-198 and 272-297: the differential branch, to the return
DifferentialFetch(o) ==
    /\ spc = "fetch"
    /\ mode = "differential"
    /\ o # "page" => faults < MaxFaults
    /\ faults' = IF o = "page" THEN faults ELSE faults + 1
    /\ IF o = "raise"
       THEN /\ spc' = "raised"
            /\ UNCHANGED <<sync_file, state, fetched, pinecone,
                           total_api_calls_this_run, total_synced_this_run>>
       ELSE LET maxr == IF max_tweets < PageSize THEN max_tweets ELSE PageSize
                r == GetUserTweets(o, state.newest_synced_tweet_id, NoId, maxr)
                filtered == FilterTweetsByHashtag(r.tweets)
                st == IF filtered # <<>> /\ r.newest_id # NoId
                      THEN [state EXCEPT !.newest_synced_tweet_id = r.newest_id]
                      ELSE state
                fin == UpdatedState(st, Len(filtered))
            IN  /\ fetched' = r
                /\ total_api_calls_this_run' = Len(r.tweets)
                /\ spc' = "returned"
                /\ IF r.tweets = <<>>
                   THEN /\ sync_file' = <<state>>
                        /\ UNCHANGED <<state, pinecone, total_synced_this_run>>
                   ELSE /\ pinecone' = pinecone \cup IdsOf(filtered)
                        /\ total_synced_this_run' = Len(filtered)
                        /\ state' = fin
                        /\ sync_file' = <<fin>>
    /\ UNCHANGED <<timeline, configured, mode, max_tweets, fetch_all,
                   pages_fetched, last_page_seen, runs>>
    /\ UNCHANGED <<pvars, tvars, avars, gvars>>

\* max_pages of line 205
MaxPages == IF fetch_all THEN MaxPagesAll ELSE (max_tweets \div PageSize) + 1

\* Lines 207-270: one turn of the while loop of the historical branch, on
\* the outcome o1 of the fetch of line 208 and, when that one reports an
\* invalid token, the outcome o2 of the fetch of line 223; then lines
\* 272-297 when the loop is left
HistoricalPage(o1, o2) ==
    /\ spc = "fetch"
    /\ mode = "historical"
    /\ pages_fetched < MaxPages
    /\ LET second == o1 = "token_invalid"
           failed == (IF o1 = "page" THEN 0 ELSE 1)
                     + (IF second /\ o2 # "page" THEN 1 ELSE 0)
       IN  /\ second \/ o2 = "page"
           /\ faults + failed <= MaxFaults
           /\ faults' = faults + failed
           /\ IF o1 = "raise" \/ (second /\ o2 = "raise")
              THEN /\ spc' = "raised"
                   /\ UNCHANGED <<sync_file, state, fetched, pinecone,
                                  pages_fetched, last_page_seen,
                                  total_api_calls_this_run,
                                  total_synced_this_run>>
              ELSE LET s1 == IF second
                             THEN [state EXCEPT !.pagination_token = NoId]
                             ELSE state
                       r == IF second
                            THEN GetUserTweets(o2, NoId, NoId, PageSize)
                            ELSE GetUserTweets(o1, NoId, state.pagination_token,
                                               PageSize)
                       last == IF second THEN IsLastPage(o2, r)
                               ELSE IsLastPage(o1, r)
                       calls == total_api_calls_this_run + Len(r.tweets)
                       filtered == FilterTweetsByHashtag(r.tweets)
                       synced == total_synced_this_run + Len(filtered)
                       s2 == IF r.newest_id # NoId
                                /\ s1.newest_synced_tweet_id = NoId
                             THEN [s1 EXCEPT !.newest_synced_tweet_id = r.newest_id]
                             ELSE s1
                       s3 == IF r.oldest_id # NoId
                                /\ (s2.oldest_synced_tweet_id = NoId
                                    \/ r.oldest_id < s2.oldest_synced_tweet_id)
                             THEN [s2 EXCEPT !.oldest_synced_tweet_id = r.oldest_id]
                             ELSE s2
                       complete(st) == [st EXCEPT !.all_historical_collected = TRUE,
                                                  !.pagination_token = NoId]
                       s4 == IF r.tweets = <<>> THEN complete(s1)
                             ELSE IF HasMore(r)
                             THEN [s3 EXCEPT !.pagination_token = r.next_token]
                             ELSE complete(s3)
                       left == \/ r.tweets = <<>>
                               \/ ~HasMore(r)
                               \/ (~fetch_all /\ calls >= max_tweets)
                               \/ pages_fetched + 1 >= MaxPages
                       fin == UpdatedState(s4, synced)
                   IN  /\ fetched' = r
                       /\ pages_fetched' = pages_fetched + 1
                       /\ total_api_calls_this_run' = calls
                       /\ total_synced_this_run' = synced
                       /\ pinecone' = pinecone \cup IdsOf(filtered)
                       /\ last_page_seen' = (last_page_seen \/ last)
                       /\ IF left
                          THEN /\ state' = fin
                               /\ sync_file' = <<fin>>
                               /\ spc' = "returned"
                          ELSE /\ state' = s4
                               /\ UNCHANGED <<sync_file, spc>>
    /\ UNCHANGED <<timeline, configured, mode, max_tweets, fetch_all, runs>>
    /\ UNCHANGED <<pvars, tvars, avars, gvars>>

\* The user makes a post, with or without a target tag
Post(tagged) ==
    /\ Len(timeline) < MaxTweets
    /\ timeline' = Append(timeline, tagged)
    /\ UNCHANGED <<configured, sync_file, state, spc, mode, max_tweets,
                   fetch_all, pages_fetched, total_api_calls_this_run,
                   total_synced_this_run, fetched, pinecone, last_page_seen,
                   faults, runs>>
    /\ UNCHANGED <<pvars, tvars, avars, gvars>>

\* The values of max_tweets: less than a page, a page, more than a page
MaxTweetsArgs == {1, PageSize, PageSize + 1}

SyncInit ==
    /\ timeline = <<>>
    /\ configured \in BOOLEAN
    /\ sync_file = <<>>
    /\ state = DefaultState
    /\ spc = "idle"
    /\ mode = ""
    /\ max_tweets = 0
    /\ fetch_all = FALSE
    /\ pages_fetched = 0
    /\ total_api_calls_this_run = 0
    /\ total_synced_this_run = 0
    /\ fetched = EmptyResult
    /\ pinecone = {}
    /\ last_page_seen = FALSE
    /\ faults = 0
    /\ runs = 0
    /\ AnalyzeIdle
    /\ GenerateIdle
    /\ latest = [col \in {"close"} |-> Fin(112, 1)]
    /\ tpc = "idle"
    /\ strength_factors = <<>>
    /\ net_score = None
    /\ trend = ""
    /\ strength = None
    /\ response = JNull
    /\ items = <<>>
    /\ idx = 1
    /\ patterns = <<>>
    /\ pc = "idle"
    /\ exc = ""
    /\ now = 0
    /\ results = <<>>

SyncNext ==
    \/ \E mt \in MaxTweetsArgs, fa \in BOOLEAN : StartSync(mt, fa)
    \/ \E o \in FetchOutcomes : DifferentialFetch(o)
    \/ \E o1, o2 \in FetchOutcomes : HistoricalPage(o1, o2)
    \/ \E tagged \in BOOLEAN : Post(tagged)

SpecSync == SyncInit /\ [][SyncNext]_vars

---------------------------------------------------------------------------
\* The persisted state of the sync

\* The saved state marks the backfill as complete
BackfillMarkedComplete ==
    /\ sync_file # <<>>
    /\ sync_file[1].all_historical_collected

\* C29: across the calls of sync_tweets, the saved flag
\* all_historical_collected is true only after a fetch reached the last
\* page of the user's history; a fetch that is empty because of an API
\* error or an unknown user does not mark the backfill as complete.
C29_CompleteOnlyAfterLastPage ==
    BackfillMarkedComplete => last_page_seen

\* A differential call has returned after a fetch that brought new posts
DifferentialRunWithNewTweets ==
    /\ spc = "returned"
    /\ mode = "differential"
    /\ fetched.tweets # <<>>

\* C30: after a differential call whose fetch returned at least one new
\* post, the saved newest_synced_tweet_id is the newest id of that fetch,
\* whether or not a fetched post matched the hashtag filter.
C30_NewestIdFollowsFetch ==
    DifferentialRunWithNewTweets =>
        sync_file[1].newest_synced_tweet_id = fetched.newest_id

===========================================================================
